---------------------------- MODULE Spec2Model ----------------------------
(***************************************************************************)
(* Model of the Celeste Map core: record cleaning (data_processor.py),     *)
(* geolocation enrichment (geo_analyzer.py) and rule-based risk scoring    *)
(* (risk_engine.py).                                                       *)
(*                                                                         *)
(* Python values are records [kind, n, s]:                                 *)
(*   kind = "None"            Python None                                  *)
(*   kind = "NaN"             float('nan') (pandas' missing cell)          *)
(*   kind = "int" / "float"   a number; n holds it (floats that stand for  *)
(*                            coordinates are in units of 1/10000 degree)  *)
(*   kind = "str"             a string; s is its sequence of characters    *)
(* Scores are in thousandths (3.0 is 3000) so that round(x, 2) is a real   *)
(* operation on them.                                                      *)
(***************************************************************************)
EXTENDS Integers, Sequences, FiniteSets, TLC

VARIABLES
    config,          \* RiskEngine configuration (self.high_risk_ports, ...)
    ipinfo_token,    \* GeoAnalyzer.ipinfo_token ("" when not configured)
    nodes,           \* the batch: a list of VPNNode objects, mutated in place
    enriched_nodes,  \* enrich_nodes' result list
    orig,            \* history: the nodes as they were passed in
    calls,           \* history: per node, the providers enrich_node called
    outcome,         \* history: per node, how enrich_node went
    pc,              \* position in the operation being run
    idx,             \* number of nodes the running loop has processed
    use_api,         \* enrich_nodes argument
    max_api_calls,   \* enrich_nodes argument
    api_calls_made,  \* enrich_nodes local counter
    raised,          \* "" or the exception that left the running operation
    table,           \* the raw table handed to clean_dataframe
    cleaned,         \* clean_dataframe(table)
    cleaned2,        \* clean_dataframe(clean_dataframe(table))
    cls_score,       \* a score handed to the threshold classification
    cls_level,       \* its classification
    errors,          \* the error list of validate_dataframe
    session_nodes,   \* st.session_state['nodes']: the stored scored nodes
    clock,           \* time.time(), in hundredths of a second
    last_request_time, \* GeoAnalyzer.last_request_time
    request_times,   \* history: last_request_time at each provider request
    sleeps,          \* history: the time.sleep argument before each request
    stats            \* the mapping returned by get_statistics

vars == <<config, ipinfo_token, nodes, enriched_nodes, orig, calls, outcome,
          pc, idx, use_api, max_api_calls, api_calls_made, raised, table,
          cleaned, cleaned2, cls_score, cls_level, errors, session_nodes,
          clock, last_request_time, request_times, sleeps, stats>>

---------------------------------------------------------------------------
(* Python values *)

None == [kind |-> "None", n |-> 0, s |-> <<>>]

NaN == [kind |-> "NaN", n |-> 0, s |-> <<>>]

PyInt(i) == [kind |-> "int", n |-> i, s |-> <<>>]

PyFloat(x) == [kind |-> "float", n |-> x, s |-> <<>>]

PyStr(chars) == [kind |-> "str", n |-> 0, s |-> chars]

\* bool(v): None, 0, 0.0 and "" are falsy; NaN is a non-zero float, truthy
Truthy(v) ==
    CASE v.kind = "None" -> FALSE
      [] v.kind = "NaN" -> TRUE
      [] v.kind = "int" -> v.n # 0
      [] v.kind = "float" -> v.n # 0
      [] v.kind = "str" -> v.s # <<>>

\* a or b
PyOr(a, b) == IF Truthy(a) THEN a ELSE b

---------------------------------------------------------------------------
(* Strings as character sequences *)

LowerChar(c) ==
    CASE c = "A" -> "a" [] c = "B" -> "b" [] c = "C" -> "c" [] c = "D" -> "d"
      [] c = "E" -> "e" [] c = "F" -> "f" [] c = "G" -> "g" [] c = "H" -> "h"
      [] c = "I" -> "i" [] c = "J" -> "j" [] c = "K" -> "k" [] c = "L" -> "l"
      [] c = "M" -> "m" [] c = "N" -> "n" [] c = "O" -> "o" [] c = "P" -> "p"
      [] c = "Q" -> "q" [] c = "R" -> "r" [] c = "S" -> "s" [] c = "T" -> "t"
      [] c = "U" -> "u" [] c = "V" -> "v" [] c = "W" -> "w" [] c = "X" -> "x"
      [] c = "Y" -> "y" [] c = "Z" -> "z" [] OTHER -> c

\* str.lower()
Lower(chars) == [i \in 1..Len(chars) |-> LowerChar(chars[i])]

\* needle in hay
Contains(hay, needle) ==
    \E i \in 0..(Len(hay) - Len(needle)) :
        SubSeq(hay, i + 1, i + Len(needle)) = needle

DigitChars == <<"0", "1", "2", "3", "4", "5", "6", "7", "8", "9">>

IsDigit(c) == \E d \in 1..10 : DigitChars[d] = c

DigitValue(c) == (CHOOSE d \in 1..10 : DigitChars[d] = c) - 1

RECURSIVE NatToChars(_)
\* str(n) for n >= 0
NatToChars(n) ==
    IF n < 10 THEN <<DigitChars[n + 1]>>
    ELSE NatToChars(n \div 10) \o <<DigitChars[(n % 10) + 1]>>

\* The text "{node.port}" of an f-string: str() of an int, or of a float
\* with an integral value ("22.0").
FormatNumber(v) ==
    LET digits == IF v.n < 0 THEN <<"-">> \o NatToChars(-v.n)
                  ELSE NatToChars(v.n)
    IN  IF v.kind = "float" THEN digits \o <<".", "0">> ELSE digits

---------------------------------------------------------------------------
(* VPNNode *)

\* VPNNode(ip=..., ...) with the dataclass defaults and __post_init__
VPNNode(ip, port, country, region, city, asn, isp, first_seen, last_seen, latitude, longitude) ==
    [ip |-> ip, port |-> port, country |-> country, region |-> region,
     city |-> city, asn |-> asn, isp |-> isp, first_seen |-> first_seen,
     last_seen |-> last_seen, latitude |-> latitude, longitude |-> longitude,
     risk_score |-> 0, risk_level |-> "Unknown", risk_factors |-> <<>>]

---------------------------------------------------------------------------
(* Risk engine configuration *)

\* get_default_config()['risk_engine'], as RiskEngine.__init__ reads it
DefaultConfig ==
    [high_risk_ports |-> {22, 23, 3389, 4444, 5555, 8080, 8888},
     medium_risk_ports |-> {80, 443, 8000, 8443},
     datacenter_keywords |->
        << <<"h","o","s","t","i","n","g">>,
           <<"d","a","t","a","c","e","n","t","e","r">>,
           <<"c","l","o","u","d">>,
           <<"v","i","r","t","u","a","l">>,
           <<"v","p","n">>,
           <<"p","r","o","x","y">> >>,
     thresholds |-> [high |-> 7000, medium |-> 4000, low |-> 0]]

\* An operator's retuned configuration: port 80 is in both port sets and
\* the thresholds are lower.
RetunedConfig ==
    [high_risk_ports |-> {22, 80},
     medium_risk_ports |-> {80, 443},
     datacenter_keywords |->
        << <<"h","o","s","t","i","n","g">>, <<"c","l","o","u","d">> >>,
     thresholds |-> [high |-> 5000, medium |-> 2500, low |-> 0]]

ConfigChoices == {DefaultConfig, RetunedConfig}

---------------------------------------------------------------------------
(* Risk scoring *)

\* round(x, 2) on thousandths, ties to even
Round2(x) ==
    LET q == x \div 10
        r == x % 10
    IN  10 * (IF r > 5 \/ (r = 5 /\ q % 2 = 1) THEN q + 1 ELSE q)

\* The classification with strict comparisons
ClassifyLevel_strict(risk_score, thresholds) ==
    IF risk_score > thresholds.high THEN "High"
    ELSE IF risk_score > thresholds.medium THEN "Medium"
    ELSE IF risk_score > 0 THEN "Low"
    ELSE "Unknown"

\* The threshold classification of assess_node
ClassifyLevel(risk_score, thresholds) ==
    IF risk_score >= thresholds.high THEN "High"
    ELSE IF risk_score >= thresholds.medium THEN "Medium"
    ELSE IF risk_score > 0 THEN "Low"
    ELSE "Unknown"

\* any(keyword in text for keyword in self.datacenter_keywords)
AnyKeywordIn(text, keywords) ==
    \E k \in 1..Len(keywords) : Contains(text, keywords[k])

\* v.lower() raises AttributeError unless v is a str
HasLower(v) == v.kind = "str"

\* assess_node raises when a truthy isp or asn is not a string
AssessRaises(node) ==
    \/ (Truthy(node.isp) /\ ~HasLower(node.isp))
    \/ (Truthy(node.asn) /\ ~HasLower(node.asn))

\* The port block with two independent ifs instead of if/elif
PortRule_both(node, cfg) ==
    LET high == Truthy(node.port) /\ node.port.n \in cfg.high_risk_ports
        medium == Truthy(node.port) /\ node.port.n \in cfg.medium_risk_ports
    IN  [score |-> (IF high THEN 3000 ELSE 0) + (IF medium THEN 1500 ELSE 0),
         factors |->
            (IF high THEN << <<"High-risk port (">> \o FormatNumber(node.port)
                             \o <<")">> >> ELSE <<>>)
            \o (IF medium THEN << <<"Medium-risk port (">>
                                 \o FormatNumber(node.port) \o <<")">> >>
                ELSE <<>>)]

\* The port rule: [score, factors] added by the port block
PortRule(node, cfg) ==
    IF Truthy(node.port) THEN
        IF node.port.n \in cfg.high_risk_ports THEN
            [score |-> 3000,
             factors |-> << <<"High-risk port (">> \o FormatNumber(node.port)
                            \o <<")">> >>]
        ELSE IF node.port.n \in cfg.medium_risk_ports THEN
            [score |-> 1500,
             factors |-> << <<"Medium-risk port (">> \o FormatNumber(node.port)
                            \o <<")">> >>]
        ELSE [score |-> 0, factors |-> <<>>]
    ELSE [score |-> 0, factors |-> <<>>]

IspRule(node, cfg) ==
    IF Truthy(node.isp) /\ AnyKeywordIn(Lower(node.isp.s), cfg.datacenter_keywords)
    THEN [score |-> 2000, factors |-> << <<"Datacenter/hosting provider">> >>]
    ELSE [score |-> 0, factors |-> <<>>]

\* The ASN rule weighing as much as the ISP rule
AsnRule_heavy(node, cfg) ==
    IF Truthy(node.asn) /\ AnyKeywordIn(Lower(node.asn.s), cfg.datacenter_keywords)
    THEN [score |-> 2000, factors |-> << <<"Datacenter ASN pattern">> >>]
    ELSE [score |-> 0, factors |-> <<>>]

\* The datacenter ASN rule
AsnRule(node, cfg) ==
    IF Truthy(node.asn) /\ AnyKeywordIn(Lower(node.asn.s), cfg.datacenter_keywords)
    THEN [score |-> 1500, factors |-> << <<"Datacenter ASN pattern">> >>]
    ELSE [score |-> 0, factors |-> <<>>]

\* The VPN rule adding its weight without naming a factor
VpnRule_silent(node) ==
    IF Truthy(node.isp) /\ Contains(Lower(node.isp.s), <<"v","p","n">>)
    THEN [score |-> 1000, factors |-> <<>>]
    ELSE [score |-> 0, factors |-> <<>>]

\* Known VPN provider indicators
VpnRule(node) ==
    IF Truthy(node.isp) /\ Contains(Lower(node.isp.s), <<"v","p","n">>)
    THEN [score |-> 1000, factors |-> << <<"Known VPN provider">> >>]
    ELSE [score |-> 0, factors |-> <<>>]

MissingFields(node) ==
    (IF ~Truthy(node.country) THEN 1 ELSE 0)
    + (IF ~Truthy(node.isp) THEN 1 ELSE 0)
    + (IF ~Truthy(node.asn) THEN 1 ELSE 0)

\* The sparse-metadata rule firing only when all three fields are missing
MissingRule_allthree(node) ==
    IF MissingFields(node) >= 3
    THEN [score |-> 500, factors |-> << <<"Insufficient metadata">> >>]
    ELSE [score |-> 0, factors |-> <<>>]

\* The sparse-metadata rule weighing more than the asn and port rules
MissingRule_heavy(node) ==
    IF MissingFields(node) >= 2
    THEN [score |-> 2000, factors |-> << <<"Insufficient metadata">> >>]
    ELSE [score |-> 0, factors |-> <<>>]

\* Missing metadata increases uncertainty
MissingRule(node) ==
    IF MissingFields(node) >= 2
    THEN [score |-> 500, factors |-> << <<"Insufficient metadata">> >>]
    ELSE [score |-> 0, factors |-> <<>>]

\* assess_node classifying before the sparse-metadata rule is added
assess_node_early_level(node, cfg) ==
    LET p == PortRule(node, cfg)
        i == IspRule(node, cfg)
        a == AsnRule(node, cfg)
        v == VpnRule(node)
        m == MissingRule(node)
        before == p.score + i.score + a.score + v.score
    IN  [node EXCEPT !.risk_score = Round2(before + m.score),
                     !.risk_level = ClassifyLevel(before, cfg.thresholds),
                     !.risk_factors = p.factors \o i.factors \o a.factors
                                      \o v.factors \o m.factors]

\* assess_node storing the isp in lower case as well
assess_node_normalising(node, cfg) ==
    LET p == PortRule(node, cfg)
        i == IspRule(node, cfg)
        a == AsnRule(node, cfg)
        v == VpnRule(node)
        m == MissingRule(node)
        risk_score == p.score + i.score + a.score + v.score + m.score
        risk_factors == p.factors \o i.factors \o a.factors \o v.factors
                        \o m.factors
    IN  [node EXCEPT !.isp = IF node.isp.kind = "str"
                              THEN PyStr(Lower(node.isp.s)) ELSE node.isp,
                     !.risk_score = Round2(risk_score),
                     !.risk_level = ClassifyLevel(risk_score, cfg.thresholds),
                     !.risk_factors = risk_factors]

\* assess_node adding to the score and the factors the node already has
assess_node_cumulative(node, cfg) ==
    LET p == PortRule(node, cfg)
        i == IspRule(node, cfg)
        a == AsnRule(node, cfg)
        v == VpnRule(node)
        m == MissingRule(node)
        risk_score == node.risk_score + p.score + i.score + a.score + v.score
                      + m.score
        risk_factors == node.risk_factors \o p.factors \o i.factors
                        \o a.factors \o v.factors \o m.factors
    IN  [node EXCEPT !.risk_score = Round2(risk_score),
                     !.risk_level = ClassifyLevel(risk_score, cfg.thresholds),
                     !.risk_factors = risk_factors]

\* RiskEngine.assess_node for a call that returns: the node afterwards
assess_node(node, cfg) ==
    LET p == PortRule(node, cfg)
        i == IspRule(node, cfg)
        a == AsnRule(node, cfg)
        v == VpnRule(node)
        m == MissingRule(node)
        risk_score == p.score + i.score + a.score + v.score + m.score
        risk_factors == p.factors \o i.factors \o a.factors \o v.factors
                        \o m.factors
    IN  [node EXCEPT !.risk_score = Round2(risk_score),
                     !.risk_level = ClassifyLevel(risk_score, cfg.thresholds),
                     !.risk_factors = risk_factors]

---------------------------------------------------------------------------
(* Geolocation enrichment *)

\* A key that a provider's JSON object does not have
Missing == [kind |-> "Missing", n |-> 0, s |-> <<>>]

\* dict.get(key, default)
DictGet(field, default) == IF field = Missing THEN default ELSE field

\* The index of the first c in chars, or 0
IndexOf(chars, c) ==
    IF \E i \in 1..Len(chars) : chars[i] = c
    THEN CHOOSE i \in 1..Len(chars) :
            chars[i] = c /\ \A j \in 1..(i - 1) : chars[j] # c
    ELSE 0

\* chars.split(c)[0]
FirstPart(chars, c) ==
    IF IndexOf(chars, c) = 0 THEN chars
    ELSE SubSeq(chars, 1, IndexOf(chars, c) - 1)

\* int(chars) succeeds on a non-empty run of digits (the addresses of the
\* model carry no sign, blank or underscore in their first part)
IsIntLiteral(chars) ==
    chars # <<>> /\ \A i \in 1..Len(chars) : IsDigit(chars[i])

RECURSIVE IntOf(_)
IntOf(chars) ==
    IF chars = <<>> THEN 0
    ELSE 10 * IntOf(SubSeq(chars, 1, Len(chars) - 1))
         + DigitValue(chars[Len(chars)])

\* chars.split()[0]: the first blank-separated word; <<>> stands for the
\* IndexError of an all-blank string
FirstWord(chars) ==
    LET starts == {i \in 1..Len(chars) : chars[i] # " "}
    IN  IF starts = {} THEN <<>>
        ELSE LET b == CHOOSE i \in starts : \A j \in starts : i <= j
                 ends == {i \in b..Len(chars) :
                            i = Len(chars) \/ chars[i + 1] = " "}
                 e == CHOOSE i \in ends : \A j \in ends : i <= j
             IN  SubSeq(chars, b, e)

\* GeoAnalyzer._get_country_coordinates: (latitude, longitude) in 1/10000
\* degree; the default (0, 0) is a pair of ints
CountryCoordinates(country_code) ==
    LET c == IF country_code.kind = "str" THEN country_code.s ELSE <<>>
    IN  CASE c = <<"U","S">> -> <<PyFloat(370902), PyFloat(-957129)>>
          [] c = <<"G","B">> -> <<PyFloat(553781), PyFloat(-34360)>>
          [] c = <<"D","E">> -> <<PyFloat(511657), PyFloat(104515)>>
          [] c = <<"F","R">> -> <<PyFloat(462276), PyFloat(22137)>>
          [] c = <<"N","L">> -> <<PyFloat(521326), PyFloat(52913)>>
          [] c = <<"C","A">> -> <<PyFloat(561304), PyFloat(-1063468)>>
          [] c = <<"A","U">> -> <<PyFloat(-252744), PyFloat(1337751)>>
          [] c = <<"J","P">> -> <<PyFloat(362048), PyFloat(1382529)>>
          [] c = <<"C","N">> -> <<PyFloat(358617), PyFloat(1041954)>>
          [] c = <<"I","N">> -> <<PyFloat(205937), PyFloat(789629)>>
          [] c = <<"B","R">> -> <<PyFloat(-142350), PyFloat(-519253)>>
          [] c = <<"R","U">> -> <<PyFloat(615240), PyFloat(1053188)>>
          [] c = <<"S","G">> -> <<PyFloat(13521), PyFloat(1038198)>>
          [] c = <<"E","U">> -> <<PyFloat(508503), PyFloat(43517)>>
          [] OTHER -> <<PyInt(0), PyInt(0)>>

\* The country bucket of the first octet
OctetCountry(first_octet) ==
    IF first_octet < 50 THEN PyStr(<<"U","S">>)
    ELSE IF first_octet < 100 THEN PyStr(<<"E","U">>)
    ELSE IF first_octet < 150 THEN PyStr(<<"C","N">>)
    ELSE PyStr(<<"U","n","k","n","o","w","n">>)

\* int(node.ip.split('.')[0]) raises: ip is no str, or its first part is
\* no integer literal
FallbackRaises(node) ==
    \/ node.ip.kind # "str"
    \/ ~IsIntLiteral(FirstPart(node.ip.s, "."))

\* GeoAnalyzer._apply_fallback_data; the exception is caught and the node
\* returned as it is
apply_fallback_data(node) ==
    IF FallbackRaises(node) THEN node
    ELSE
        LET first_octet == IntOf(FirstPart(node.ip.s, "."))
            country == IF ~Truthy(node.country) THEN OctetCountry(first_octet)
                       ELSE node.country
            coords == CountryCoordinates(country)
        IN  IF ~Truthy(node.latitude) \/ ~Truthy(node.longitude)
            THEN [node EXCEPT !.country = country,
                              !.latitude = coords[1],
                              !.longitude = coords[2]]
            ELSE [node EXCEPT !.country = country]

\* What requests.get and response.json() give for one call
\*   outcome "exception": timeout, connection error, invalid JSON
\*   outcome "http": a response with status_code and the JSON object data
\* ipinfo data: country, region, city, org, and loc as
\*   [kind |-> "missing"] / [kind |-> "pair", lat, lon] / [kind |-> "malformed"]
\* The dict a lookup returns; NoData stands for the None it returns instead
NoData ==
    [country |-> None, region |-> None, city |-> None, latitude |-> None,
     longitude |-> None, asn |-> None, isp |-> None]

\* A lookup that returned None after calling the provider
LookupNone == [called |-> TRUE, found |-> FALSE, data |-> NoData, raised |-> ""]

\* A lookup that made no call
LookupSkipped == [called |-> FALSE, found |-> FALSE, data |-> NoData, raised |-> ""]

\* lookup_ip_ipinfo: [called, found, data, raised]; found is FALSE when it
\* returns None
lookup_ip_ipinfo(token, resp) ==
    IF token = "" THEN LookupSkipped
    ELSE IF resp.outcome = "exception"
         THEN LookupNone
    ELSE IF resp.status_code = 200 THEN
        LET data == resp.data
        IN  IF data.loc.kind = "malformed"
                \/ (Truthy(DictGet(data.org, None))
                    /\ FirstWord(data.org.s) = <<>>)
            THEN LookupNone
            ELSE [called |-> TRUE, found |-> TRUE, raised |-> "",
                  data |->
                    [country |-> DictGet(data.country, None),
                     region |-> DictGet(data.region, None),
                     city |-> DictGet(data.city, None),
                     latitude |-> IF data.loc.kind = "missing"
                                  THEN PyFloat(0)
                                  ELSE PyFloat(data.loc.lat),
                     longitude |-> IF data.loc.kind = "missing"
                                   THEN PyFloat(0)
                                   ELSE PyFloat(data.loc.lon),
                     asn |-> IF Truthy(DictGet(data.org, None))
                             THEN PyStr(FirstWord(data.org.s))
                             ELSE None,
                     isp |-> DictGet(data.org, PyStr(<<>>))]]
    ELSE LookupNone

\* lookup_ip_free_api without its except clause: a request error leaves it
lookup_ip_free_api_uncaught(resp) ==
    IF resp.outcome = "exception"
    THEN [called |-> TRUE, found |-> FALSE, data |-> NoData,
          raised |-> "RequestException"]
    ELSE LookupNone

\* lookup_ip_free_api: [called, found, data, raised]
lookup_ip_free_api(resp) ==
    IF resp.outcome = "exception"
    THEN LookupNone
    ELSE IF resp.status_code = 200
            /\ DictGet(resp.data.status, None) = PyStr(<<"s","u","c","c","e","s","s">>)
    THEN
        LET data == resp.data
        IN  IF Truthy(DictGet(data.as, None)) /\ FirstWord(data.as.s) = <<>>
            THEN LookupNone
            ELSE [called |-> TRUE, found |-> TRUE, raised |-> "",
                  data |->
                    [country |-> DictGet(data.countryCode, None),
                     region |-> DictGet(data.regionName, None),
                     city |-> DictGet(data.city, None),
                     latitude |-> DictGet(data.lat, None),
                     longitude |-> DictGet(data.lon, None),
                     asn |-> IF Truthy(DictGet(data.as, None))
                             THEN PyStr(FirstWord(data.as.s))
                             ELSE None,
                     isp |-> DictGet(data.isp, PyStr(<<>>))]]
    ELSE LookupNone

\* The merge of a provider's data into the node: present fields win
MergeIpData(node, ip_data) ==
    [node EXCEPT !.country = PyOr(node.country, ip_data.country),
                 !.region = PyOr(node.region, ip_data.region),
                 !.city = PyOr(node.city, ip_data.city),
                 !.latitude = PyOr(node.latitude, ip_data.latitude),
                 !.longitude = PyOr(node.longitude, ip_data.longitude),
                 !.asn = PyOr(node.asn, ip_data.asn),
                 !.isp = PyOr(node.isp, ip_data.isp)]

\* enrich_node asking the keyless provider whatever the keyed one returned
enrich_node_both(node, useapi, token, resp1, resp2) ==
    IF Truthy(node.latitude) /\ Truthy(node.longitude) /\ Truthy(node.country)
    THEN [node |-> node, calls |-> <<>>, outcome |-> "complete", raised |-> ""]
    ELSE IF ~useapi
    THEN [node |-> apply_fallback_data(node), calls |-> <<>>,
          outcome |-> "heuristic", raised |-> ""]
    ELSE
        LET first == IF token # "" THEN lookup_ip_ipinfo(token, resp1)
                     ELSE LookupSkipped
            second == lookup_ip_free_api(resp2)
            ip_data == IF second.found THEN second.data ELSE first.data
            found == first.found \/ second.found
            made == (IF first.called THEN <<"ipinfo">> ELSE <<>>)
                    \o (IF second.called THEN <<"ip-api">> ELSE <<>>)
        IN  IF found
            THEN [node |-> MergeIpData(node, ip_data), calls |-> made,
                  outcome |-> "api", raised |-> ""]
            ELSE [node |-> apply_fallback_data(node), calls |-> made,
                  outcome |-> "failed", raised |-> ""]

\* GeoAnalyzer.enrich_node with the responses the providers would give:
\* [node, calls, outcome, raised]
enrich_node(node, useapi, token, resp1, resp2) ==
    IF Truthy(node.latitude) /\ Truthy(node.longitude) /\ Truthy(node.country)
    THEN [node |-> node, calls |-> <<>>, outcome |-> "complete", raised |-> ""]
    ELSE IF ~useapi
    THEN [node |-> apply_fallback_data(node), calls |-> <<>>,
          outcome |-> "heuristic", raised |-> ""]
    ELSE
        LET first == IF token # "" THEN lookup_ip_ipinfo(token, resp1)
                     ELSE LookupSkipped
            second == IF first.raised = "" /\ ~first.found
                      THEN lookup_ip_free_api(resp2)
                      ELSE LookupSkipped
            ip_data == IF first.found THEN first.data ELSE second.data
            found == first.found \/ second.found
            made == (IF first.called THEN <<"ipinfo">> ELSE <<>>)
                    \o (IF second.called THEN <<"ip-api">> ELSE <<>>)
        IN  IF first.raised # "" \/ second.raised # ""
            THEN [node |-> node, calls |-> made, outcome |-> "raised",
                  raised |-> IF first.raised # "" THEN first.raised
                             ELSE second.raised]
            ELSE IF found
            THEN [node |-> MergeIpData(node, ip_data), calls |-> made,
                  outcome |-> "api", raised |-> ""]
            ELSE [node |-> apply_fallback_data(node), calls |-> made,
                  outcome |-> "failed", raised |-> ""]

---------------------------------------------------------------------------
(* Inputs: provider responses *)

IpinfoJson(country, region, city, loc, org) ==
    [country |-> country, region |-> region, city |-> city, loc |-> loc,
     org |-> org]

LocMissing == [kind |-> "missing", lat |-> 0, lon |-> 0]

NoIpinfoJson == IpinfoJson(Missing, Missing, Missing, LocMissing, Missing)

\* What the keyed provider may answer
IpinfoResponses ==
    {[outcome |-> "exception", status_code |-> 0, data |-> NoIpinfoJson],
     [outcome |-> "http", status_code |-> 429, data |-> NoIpinfoJson],
     [outcome |-> "http", status_code |-> 200, data |-> NoIpinfoJson],
     [outcome |-> "http", status_code |-> 200,
      data |-> IpinfoJson(PyStr(<<"D","E">>), PyStr(<<"B","E">>),
                          PyStr(<<"B","e","r","l","i","n">>),
                          [kind |-> "malformed", lat |-> 0, lon |-> 0],
                          PyStr(<<"A","S","9"," ","C","l","o","u","d">>))],
     [outcome |-> "http", status_code |-> 200,
      data |-> IpinfoJson(PyStr(<<"D","E">>), PyStr(<<"B","E">>),
                          PyStr(<<"B","e","r","l","i","n">>),
                          [kind |-> "pair", lat |-> 525200, lon |-> 134050],
                          PyStr(<<"A","S","9"," ","C","l","o","u","d">>))]}

FreeJson(status, country, lat, lon, as, isp) ==
    [status |-> status, countryCode |-> country, regionName |-> Missing,
     city |-> Missing, lat |-> lat, lon |-> lon, as |-> as, isp |-> isp]

NoFreeJson == FreeJson(Missing, Missing, Missing, Missing, Missing, Missing)

Success == PyStr(<<"s","u","c","c","e","s","s">>)

\* What the keyless provider may answer
FreeResponses ==
    {[outcome |-> "exception", status_code |-> 0, data |-> NoFreeJson],
     [outcome |-> "http", status_code |-> 500, data |-> NoFreeJson],
     [outcome |-> "http", status_code |-> 200,
      data |-> FreeJson(PyStr(<<"f","a","i","l">>), Missing, Missing, Missing,
                        Missing, Missing)],
     [outcome |-> "http", status_code |-> 200,
      data |-> FreeJson(Success, PyStr(<<"N","L">>), PyFloat(523700),
                        PyFloat(48900),
                        PyStr(<<"A","S","7"," ","N","o","r","d","V","P","N">>),
                        PyStr(<<"N","o","r","d","V","P","N">>))],
     [outcome |-> "http", status_code |-> 200,
      data |-> FreeJson(Success, PyStr(<<"G","H">>), PyFloat(0), PyFloat(0),
                        Missing, Missing)],
     [outcome |-> "http", status_code |-> 200,
      data |-> FreeJson(Success, Missing, Missing, Missing, Missing, Missing)]}

TokenChoices == {"", "token"}

---------------------------------------------------------------------------
(* Inputs: nodes *)

IPv4Low == PyStr(<<"1","0",".","0",".","0",".","1">>)

IPv4Mid == PyStr(<<"6","0",".","1",".","1",".","1">>)

IPv4High == PyStr(<<"2","0","0",".","1",".","2",".","3">>)

IPv6Addr == PyStr(<<"2","0","0","1",":","d","b","8",":",":","1">>)

\* A node built with the geographic fields only
GeoNode(ip, country, latitude, longitude) ==
    VPNNode(ip, None, country, None, None, None, None, None, None, latitude, longitude)

\* The nodes handed to enrich_nodes
EnrichNodeChoices ==
    {GeoNode(IPv4Low, None, None, None),
     GeoNode(IPv4High, None, None, None),
     GeoNode(IPv6Addr, None, None, None),
     GeoNode(IPv4Low, PyStr(<<"D","E">>), PyFloat(525200), PyFloat(134050)),
     GeoNode(IPv4Mid, PyStr(<<"F","R">>), PyFloat(488566), None),
     GeoNode(IPv6Addr, PyStr(<<"F","R">>), PyFloat(488566), None),
     GeoNode(IPv4Mid, PyStr(<<"G","H">>), PyFloat(0), PyFloat(-12000))}

MaxNodes == 2

MaxApiCalls == 1

\* Lists of at most n elements of S
ListsUpTo(S, n) == UNION {[1..k -> S] : k \in 0..n}

EmptyTable == [columns |-> <<>>, rows |-> <<>>]

---------------------------------------------------------------------------
(* enrich_nodes *)

InitEnrich ==
    /\ config = DefaultConfig
    /\ ipinfo_token \in TokenChoices
    /\ nodes \in ListsUpTo(EnrichNodeChoices, MaxNodes)
    /\ orig = nodes
    /\ enriched_nodes = <<>>
    /\ calls = <<>>
    /\ outcome = <<>>
    /\ pc = "enrich"
    /\ idx = 0
    /\ use_api \in BOOLEAN
    /\ max_api_calls \in 0..MaxApiCalls
    /\ api_calls_made = 0
    /\ raised = ""
    /\ table = EmptyTable
    /\ cleaned = EmptyTable
    /\ cleaned2 = EmptyTable
    /\ cls_score = 0
    /\ cls_level = "Unset"
    /\ errors = <<>>
    /\ session_nodes = <<>>
    /\ clock = 0
    /\ last_request_time = 0
    /\ request_times = <<>>
    /\ sleeps = <<>>
    /\ stats = <<>>

\* The budget test with <= in place of <
should_use_api_inclusive(useapi, made, budget) == useapi /\ made <= budget

\* should_use_api = use_api and api_calls_made < max_api_calls
should_use_api(useapi, made, budget) == useapi /\ made < budget

\* One iteration of the loop of enrich_nodes, on nodes[idx + 1]
EnrichStep ==
    /\ pc = "enrich"
    /\ idx < Len(nodes)
    /\ \E resp1 \in IpinfoResponses, resp2 \in FreeResponses :
        LET use_it == should_use_api(use_api, api_calls_made, max_api_calls)
            res == enrich_node(nodes[idx + 1], use_it, ipinfo_token,
                               resp1, resp2)
        IN  /\ calls' = Append(calls, res.calls)
            /\ outcome' = Append(outcome, res.outcome)
            /\ IF res.raised # ""
               THEN /\ raised' = res.raised
                    /\ pc' = "aborted"
                    /\ UNCHANGED <<nodes, enriched_nodes, idx, api_calls_made>>
               ELSE /\ nodes' = [nodes EXCEPT ![idx + 1] = res.node]
                    /\ enriched_nodes' = Append(enriched_nodes, res.node)
                    /\ idx' = idx + 1
                    /\ api_calls_made' =
                         IF use_it /\ Truthy(res.node.latitude)
                         THEN api_calls_made + 1
                         ELSE api_calls_made
                    /\ UNCHANGED <<raised, pc>>
    /\ UNCHANGED <<config, ipinfo_token, orig, use_api, max_api_calls, table,
                   cleaned, cleaned2, cls_score, cls_level,
                   errors, session_nodes, clock, last_request_time,
                   request_times, sleeps, stats>>

\* enrich_nodes returns enriched_nodes
EnrichReturn ==
    /\ pc = "enrich"
    /\ idx = Len(nodes)
    /\ pc' = "enriched"
    /\ UNCHANGED <<config, ipinfo_token, nodes, enriched_nodes, orig, calls,
                   outcome, idx, use_api, max_api_calls, api_calls_made,
                   raised, table, cleaned, cleaned2, cls_score, cls_level,
                   errors, session_nodes, clock, last_request_time,
                   request_times, sleeps, stats>>

NextEnrich == EnrichStep \/ EnrichReturn

SpecEnrich == InitEnrich /\ [][NextEnrich]_vars

---------------------------------------------------------------------------
(* enrich_nodes: claims *)

\* The nodes processed so far for which a provider was called
LookupNodes == {i \in 1..Len(calls) : calls[i] # <<>>}

\* C1: in any run of enrich_nodes the number of nodes for which an external
\* lookup is attempted is at most max_api_calls.
C1_LookupsWithinBudget == Cardinality(LookupNodes) <= max_api_calls

\* C2: each of country, latitude and longitude that is non-null before
\* enrich_node has the same value afterwards.
C2_PresentFieldsKept ==
    \A i \in 1..Len(enriched_nodes) :
        /\ orig[i].country # None => enriched_nodes[i].country = orig[i].country
        /\ orig[i].latitude # None => enriched_nodes[i].latitude = orig[i].latitude
        /\ orig[i].longitude # None => enriched_nodes[i].longitude = orig[i].longitude

\* C14: enrich_nodes called with max_api_calls = 0 performs no external
\* lookup for any node, whether use_api is true or false.
C14_ZeroBudgetNoLookup ==
    max_api_calls = 0 => \A i \in 1..Len(calls) : calls[i] = <<>>

\* enrich_nodes returned with use_api = true and a budget of zero, after
\* enriching an incomplete node by the heuristic
C14_Witness ==
    /\ pc = "enriched"
    /\ use_api
    /\ max_api_calls = 0
    /\ \E i \in 1..Len(outcome) : outcome[i] = "heuristic"

\* Heuristic (use_api = false) enrichment of a node
HeuristicResult(node) ==
    enrich_node(node, FALSE, "", CHOOSE r \in IpinfoResponses : TRUE,
                CHOOSE r \in FreeResponses : TRUE).node

\* C4: when every provider lookup for a node fails, enrich_node does not
\* raise, the node's result equals the result of heuristic enrichment of that
\* node, and enrich_nodes returns exactly one node per input node in input
\* order.
C4_FailedLookupsDegrade ==
    /\ raised = ""
    /\ pc # "aborted"
    /\ \A i \in 1..Len(enriched_nodes) :
        outcome[i] = "failed" => enriched_nodes[i] = HeuristicResult(orig[i])
    /\ pc = "enriched" =>
        /\ Len(enriched_nodes) = Len(orig)
        /\ \A i \in 1..Len(orig) : enriched_nodes[i].ip = orig[i].ip

\* Both providers were called for a node and failed, the heuristic path
\* changed the node, and enrich_nodes returned
C4_Witness ==
    /\ pc = "enriched"
    /\ \E i \in 1..Len(enriched_nodes) :
        /\ outcome[i] = "failed"
        /\ calls[i] = <<"ipinfo", "ip-api">>
        /\ enriched_nodes[i] # orig[i]

---------------------------------------------------------------------------
(* Scoring one node: construction, enrichment and scoring calls *)

\* A node built with the fields the rules read
ScoreNode(port, country, asn, isp) ==
    VPNNode(IPv4Low, port, country, None, None, asn, isp, None, None, None, None)

AcmeHostingCloud ==
    PyStr(<<"A","c","m","e"," ","H","o","s","t","i","n","g"," ","C","l","o","u","d">>)

PortChoices == {None, PyInt(0), PyInt(22), PyInt(80), PyInt(1234)}

IspChoices ==
    {None, NaN, PyStr(<<>>), AcmeHostingCloud,
     PyStr(<<"N","o","r","d","V","P","N">>),
     PyStr(<<"C","o","m","c","a","s","t">>)}

AsnChoices ==
    {None, PyStr(<<"A","S","9"," ","C","l","o","u","d">>),
     PyStr(<<"A","S","7","9","2","2">>)}

CountryChoices == {None, PyStr(<<"U","S">>)}

ScoreNodeChoices ==
    {ScoreNode(p, c, a, i) :
        p \in PortChoices, c \in CountryChoices, a \in AsnChoices,
        i \in IspChoices}

MaxAssessCalls == 2

MaxEnrichCalls == 1

InitScore ==
    /\ config \in ConfigChoices
    /\ ipinfo_token = ""
    /\ nodes \in {<<n>> : n \in ScoreNodeChoices}
    /\ orig = nodes
    /\ enriched_nodes = <<>>
    /\ calls = <<>>
    /\ outcome = <<>>
    /\ pc = "node_new"
    /\ idx = 0
    /\ use_api = FALSE
    /\ max_api_calls = 0
    /\ api_calls_made = 0
    /\ raised = ""
    /\ table = EmptyTable
    /\ cleaned = EmptyTable
    /\ cleaned2 = EmptyTable
    /\ cls_score = 0
    /\ cls_level = "Unset"
    /\ errors = <<>>
    /\ session_nodes = <<>>
    /\ clock = 0
    /\ last_request_time = 0
    /\ request_times = <<>>
    /\ sleeps = <<>>
    /\ stats = <<>>

\* risk_engine.assess_node(node) on the node; idx counts the calls
AssessNodeCall ==
    /\ pc \in {"node_new", "node_assessed", "node_enriched", "node_raised"}
    /\ idx < MaxAssessCalls
    /\ idx' = idx + 1
    /\ IF AssessRaises(nodes[1])
       THEN /\ raised' = "AttributeError"
            /\ pc' = "node_raised"
            /\ UNCHANGED nodes
       ELSE /\ nodes' = <<assess_node(nodes[1], config)>>
            /\ pc' = "node_assessed"
            /\ raised' = ""
    /\ UNCHANGED <<config, ipinfo_token, enriched_nodes, orig, calls, outcome,
                   use_api, max_api_calls, api_calls_made, table, cleaned,
                   cleaned2, cls_score, cls_level,
                   errors, session_nodes, clock, last_request_time,
                   request_times, sleeps, stats>>

\* geo_analyzer.enrich_node(node, use_api) on the node
EnrichNodeCall ==
    /\ pc \in {"node_new", "node_assessed", "node_enriched", "node_raised"}
    /\ Len(outcome) < MaxEnrichCalls
    /\ \E useapi \in BOOLEAN, resp2 \in FreeResponses :
        LET res == enrich_node(nodes[1], useapi, ipinfo_token,
                               CHOOSE r \in IpinfoResponses : TRUE, resp2)
        IN  /\ nodes' = <<res.node>>
            /\ calls' = Append(calls, res.calls)
            /\ outcome' = Append(outcome, res.outcome)
    /\ pc' = "node_enriched"
    /\ raised' = ""
    /\ UNCHANGED <<config, ipinfo_token, enriched_nodes, orig, idx, use_api,
                   max_api_calls, api_calls_made, table, cleaned, cleaned2,
                   cls_score, cls_level,
                   errors, session_nodes, clock, last_request_time,
                   request_times, sleeps, stats>>

NextScore == AssessNodeCall \/ EnrichNodeCall

SpecScore == InitScore /\ [][NextScore]_vars

---------------------------------------------------------------------------
(* The threshold classification on its own *)

MaxScore == 8000

InitClassify ==
    /\ config \in ConfigChoices
    /\ ipinfo_token = ""
    /\ nodes = <<>>
    /\ orig = <<>>
    /\ enriched_nodes = <<>>
    /\ calls = <<>>
    /\ outcome = <<>>
    /\ pc = "classify"
    /\ idx = 0
    /\ use_api = FALSE
    /\ max_api_calls = 0
    /\ api_calls_made = 0
    /\ raised = ""
    /\ table = EmptyTable
    /\ cleaned = EmptyTable
    /\ cleaned2 = EmptyTable
    /\ cls_score \in 0..MaxScore
    /\ cls_level = "Unset"
    /\ errors = <<>>
    /\ session_nodes = <<>>
    /\ clock = 0
    /\ last_request_time = 0
    /\ request_times = <<>>
    /\ sleeps = <<>>
    /\ stats = <<>>

\* The if/elif chain of assess_node applied to cls_score
Classify ==
    /\ pc = "classify"
    /\ cls_level' = ClassifyLevel(cls_score, config.thresholds)
    /\ pc' = "classified"
    /\ UNCHANGED <<config, ipinfo_token, nodes, enriched_nodes, orig, calls,
                   outcome, idx, use_api, max_api_calls, api_calls_made,
                   raised, table, cleaned, cleaned2, cls_score,
                   errors, session_nodes, clock, last_request_time,
                   request_times, sleeps, stats>>

NextClassify == Classify

SpecClassify == InitClassify /\ [][NextClassify]_vars

---------------------------------------------------------------------------
(* Scoring: claims *)

C5_Rules == <<"high_port", "medium_port", "dc_isp", "dc_asn", "vpn", "sparse">>

C5_IsText(v) == v.kind = "str" /\ v.s # <<>>

C5_Absent(v) == v = None \/ v = PyStr(<<>>)

\* The condition of each rule of the table
C5_Holds(r, n, cfg) ==
    CASE r = "high_port" ->
            n.port.kind \in {"int", "float"} /\ n.port.n \in cfg.high_risk_ports
      [] r = "medium_port" ->
            /\ n.port.kind \in {"int", "float"}
            /\ n.port.n \notin cfg.high_risk_ports
            /\ n.port.n \in cfg.medium_risk_ports
      [] r = "dc_isp" ->
            /\ C5_IsText(n.isp)
            /\ \E k \in 1..Len(cfg.datacenter_keywords) :
                Contains(Lower(n.isp.s), cfg.datacenter_keywords[k])
      [] r = "dc_asn" ->
            /\ C5_IsText(n.asn)
            /\ \E k \in 1..Len(cfg.datacenter_keywords) :
                Contains(Lower(n.asn.s), cfg.datacenter_keywords[k])
      [] r = "vpn" ->
            C5_IsText(n.isp) /\ Contains(Lower(n.isp.s), <<"v","p","n">>)
      [] r = "sparse" ->
            Cardinality({f \in {"country", "isp", "asn"} : C5_Absent(n[f])}) >= 2

C5_Weight(r) ==
    CASE r = "high_port" -> 3000
      [] r = "medium_port" -> 1500
      [] r = "dc_isp" -> 2000
      [] r = "dc_asn" -> 1500
      [] r = "vpn" -> 1000
      [] r = "sparse" -> 500

C5_Text(r, n) ==
    CASE r = "high_port" ->
            <<"High-risk port (">> \o FormatNumber(n.port) \o <<")">>
      [] r = "medium_port" ->
            <<"Medium-risk port (">> \o FormatNumber(n.port) \o <<")">>
      [] r = "dc_isp" -> <<"Datacenter/hosting provider">>
      [] r = "dc_asn" -> <<"Datacenter ASN pattern">>
      [] r = "vpn" -> <<"Known VPN provider">>
      [] r = "sparse" -> <<"Insufficient metadata">>

RECURSIVE C5_Sum(_, _, _)
\* The weights of the rules k..6 that hold
C5_Sum(k, n, cfg) ==
    IF k > Len(C5_Rules) THEN 0
    ELSE (IF C5_Holds(C5_Rules[k], n, cfg) THEN C5_Weight(C5_Rules[k]) ELSE 0)
         + C5_Sum(k + 1, n, cfg)

RECURSIVE C5_Factors(_, _, _)
\* The factor texts of the rules k..6 that hold, in rule order
C5_Factors(k, n, cfg) ==
    IF k > Len(C5_Rules) THEN <<>>
    ELSE (IF C5_Holds(C5_Rules[k], n, cfg) THEN <<C5_Text(C5_Rules[k], n)>>
          ELSE <<>>)
         \o C5_Factors(k + 1, n, cfg)

\* C5: a call of assess_node that returns sets risk_score to the sum of the
\* weights of exactly the rules whose condition holds, at most one port rule
\* firing, and risk_factors to their texts in rule order; a node with no
\* port, isp, asn or country scores 0.50 with level Low.
C5_ScoreIsSumOfRules ==
    pc = "node_assessed" =>
        /\ nodes[1].risk_score = C5_Sum(1, nodes[1], config)
        /\ nodes[1].risk_factors = C5_Factors(1, nodes[1], config)
        /\ (nodes[1].port = None /\ nodes[1].isp = None /\ nodes[1].asn = None
            /\ nodes[1].country = None)
           => (nodes[1].risk_score = 500 /\ nodes[1].risk_level = "Low")

\* A port in both configured sets was scored together with two other rules
C5_Witness ==
    /\ pc = "node_assessed"
    /\ config = RetunedConfig
    /\ nodes[1].port = PyInt(80)
    /\ nodes[1].isp = AcmeHostingCloud
    /\ nodes[1].risk_score = 5500
    /\ Len(nodes[1].risk_factors) = 3

\* The node of the worked example: port 22, isp "Acme Hosting Cloud" and no
\* other optional field
C6_ExampleNode ==
    /\ nodes[1].port = PyInt(22)
    /\ nodes[1].isp = AcmeHostingCloud
    /\ \A f \in {"country", "region", "city", "asn", "first_seen", "last_seen",
                 "latitude", "longitude"} : nodes[1][f] = None

C6_Scored == pc = "node_assessed" /\ config = DefaultConfig /\ C6_ExampleNode

\* C6 (as stated): the example node scores 5.00, Medium, with exactly the
\* factors "High-risk port (22)" and "Datacenter/hosting provider".
C6_SpecExample ==
    C6_Scored =>
        /\ nodes[1].risk_score = 5000
        /\ nodes[1].risk_level = "Medium"
        /\ nodes[1].risk_factors =
            << <<"High-risk port (", "2", "2", ")">>,
               <<"Datacenter/hosting provider">> >>

\* C6 (amended): the example node scores 5.50, Medium, with the factors
\* "High-risk port (22)", "Datacenter/hosting provider" and "Insufficient
\* metadata", its country and asn being absent.
C6_ExampleScoresFiveAndAHalf ==
    C6_Scored =>
        /\ nodes[1].risk_score = 5500
        /\ nodes[1].risk_level = "Medium"
        /\ nodes[1].risk_factors =
            << <<"High-risk port (", "2", "2", ")">>,
               <<"Datacenter/hosting provider">>,
               <<"Insufficient metadata">> >>

C6_Witness == C6_Scored /\ idx = 1 /\ outcome = <<>>

\* C8: in every state a node reaches through construction, enrichment and
\* scoring calls, its risk_level is the threshold classification of its
\* stored risk_score.
C8_LevelMatchesStoredScore ==
    \A i \in 1..Len(nodes) :
        nodes[i].risk_level =
            (IF nodes[i].risk_score >= config.thresholds.high THEN "High"
             ELSE IF nodes[i].risk_score >= config.thresholds.medium THEN "Medium"
             ELSE IF nodes[i].risk_score > 0 THEN "Low"
             ELSE "Unknown")

\* A node scored, enriched through a provider and scored again, at a score
\* the sparse-metadata rule lifts over the medium threshold
C8_Witness ==
    /\ pc = "node_assessed"
    /\ idx = 2
    /\ outcome = <<"api">>
    /\ nodes[1].risk_score = 2500
    /\ config = RetunedConfig
    /\ nodes[1].risk_level = "Medium"

---------------------------------------------------------------------------
(* Classification: claims *)

\* C7: a score >= the high threshold is High, otherwise a score >= the medium
\* threshold is Medium, otherwise a score > 0 is Low, otherwise Unknown; by
\* default 7.0 is High, 6.99 Medium, 4.0 Medium, 3.99 Low and 0 Unknown.
C7_ThresholdClassification ==
    pc = "classified" =>
        LET high == config.thresholds.high
            medium == config.thresholds.medium
        IN  /\ cls_score >= high => cls_level = "High"
            /\ (cls_score < high /\ cls_score >= medium) => cls_level = "Medium"
            /\ (cls_score < high /\ cls_score < medium /\ cls_score > 0)
               => cls_level = "Low"
            /\ (cls_score < high /\ cls_score < medium /\ cls_score <= 0)
               => cls_level = "Unknown"
            /\ config = DefaultConfig =>
                /\ cls_score = 7000 => cls_level = "High"
                /\ cls_score = 6990 => cls_level = "Medium"
                /\ cls_score = 4000 => cls_level = "Medium"
                /\ cls_score = 3990 => cls_level = "Low"
                /\ cls_score = 0 => cls_level = "Unknown"

\* The default high threshold itself was classified
C7_Witness ==
    /\ pc = "classified"
    /\ config = DefaultConfig
    /\ cls_score = 7000
    /\ cls_level = "High"

---------------------------------------------------------------------------
(* validate_ip: ipaddress.ip_address on a string *)

RECURSIVE Split(_, _)
\* chars.split(sep)
Split(chars, sep) ==
    IF IndexOf(chars, sep) = 0 THEN <<chars>>
    ELSE <<SubSeq(chars, 1, IndexOf(chars, sep) - 1)>>
         \o Split(SubSeq(chars, IndexOf(chars, sep) + 1, Len(chars)), sep)

HexChars ==
    {"0", "1", "2", "3", "4", "5", "6", "7", "8", "9", "a", "b", "c", "d", "e",
     "f", "A", "B", "C", "D", "E", "F"}

\* IPv4Address._parse_octet: 1 to 3 digits, no leading zero, at most 255
IsOctet(part) ==
    /\ part # <<>>
    /\ \A i \in 1..Len(part) : IsDigit(part[i])
    /\ Len(part) <= 3
    /\ (Len(part) > 1 => part[1] # "0")
    /\ IntOf(part) <= 255

\* IPv4Address(chars) succeeds
IsIPv4(chars) ==
    LET octets == Split(chars, ".")
    IN  Len(octets) = 4 /\ \A i \in 1..4 : IsOctet(octets[i])

\* IPv6Address._parse_hextet: 1 to 4 hexadecimal digits
IsHextet(part) ==
    /\ part # <<>>
    /\ Len(part) <= 4
    /\ \A i \in 1..Len(part) : part[i] \in HexChars

\* IPv6Address._ip_int_from_str succeeds on the address without scope id
IsIPv6Body(chars) ==
    LET raw == Split(chars, ":")
        embedded == Len(raw) >= 3 /\ IndexOf(raw[Len(raw)], ".") # 0
        parts == IF embedded
                 THEN SubSeq(raw, 1, Len(raw) - 1) \o << <<"0">>, <<"0">> >>
                 ELSE raw
        n == Len(parts)
        skips == {i \in 2..(n - 1) : parts[i] = <<>>}
    IN  /\ chars # <<>>
        /\ Len(raw) >= 3
        /\ embedded => IsIPv4(raw[Len(raw)])
        /\ n <= 9
        /\ Cardinality(skips) <= 1
        /\ IF skips # {}
           THEN LET skip == CHOOSE i \in skips : TRUE
                    hi == IF parts[1] = <<>> THEN skip - 2 ELSE skip - 1
                    lo == IF parts[n] = <<>> THEN n - skip - 1 ELSE n - skip
                IN  /\ parts[1] = <<>> => hi = 0
                    /\ parts[n] = <<>> => lo = 0
                    /\ 8 - (hi + lo) >= 1
                    /\ \A i \in 1..hi : IsHextet(parts[i])
                    /\ \A i \in (n - lo + 1)..n : IsHextet(parts[i])
           ELSE /\ n = 8
                /\ \A i \in 1..8 : IsHextet(parts[i])

\* IPv6Address(chars) succeeds: no "/", an optional "%scope" that is not
\* empty and holds no further "%", then the address
IsIPv6(chars) ==
    LET at == IndexOf(chars, "%")
        addr == IF at = 0 THEN chars ELSE SubSeq(chars, 1, at - 1)
        scope_id == IF at = 0 THEN <<>> ELSE SubSeq(chars, at + 1, Len(chars))
    IN  /\ IndexOf(chars, "/") = 0
        /\ at # 0 => (scope_id # <<>> /\ IndexOf(scope_id, "%") = 0)
        /\ IsIPv6Body(addr)

\* utils.validate_ip on a cell: a string is parsed; None and NaN raise the
\* ValueError that is caught
validate_ip(ip) == ip.kind = "str" /\ (IsIPv4(ip.s) \/ IsIPv6(ip.s))

---------------------------------------------------------------------------
(* Tables: a pandas DataFrame is [columns, rows]; a row maps each column    *)
(* name to its cell, NaN being the missing cell                             *)

HasColumn(df, name) == \E i \in 1..Len(df.columns) : df.columns[i] = name

\* str.strip() of blanks
RECURSIVE StripChars(_)
StripChars(chars) ==
    IF chars = <<>> THEN chars
    ELSE IF chars[1] = " " THEN StripChars(Tail(chars))
    ELSE IF chars[Len(chars)] = " "
    THEN StripChars(SubSeq(chars, 1, Len(chars) - 1))
    ELSE chars

\* df[df['ip'].apply(validate_ip)]
KeepValidIps(rows) == SelectSeq(rows, LAMBDA r : validate_ip(r["ip"]))

RECURSIVE DropDuplicateIps(_, _)
\* The first k rows after drop_duplicates(subset=['ip'], keep='first')
DropDuplicateIps(rows, k) ==
    IF k = 0 THEN <<>>
    ELSE IF \E j \in 1..(k - 1) : rows[j]["ip"] = rows[k]["ip"]
    THEN DropDuplicateIps(rows, k - 1)
    ELSE Append(DropDuplicateIps(rows, k - 1), rows[k])

\* column_mapping: the canonical name of a column
CanonicalName(name) ==
    CASE name = "IP" -> "ip"
      [] name = "Port" -> "port"
      [] name = "Country" -> "country"
      [] name = "ASN" -> "asn"
      [] name = "ISP" -> "isp"
      [] name = "First Seen" -> "first_seen"
      [] name = "Last Seen" -> "last_seen"
      [] name = "Latitude" -> "latitude"
      [] name = "Longitude" -> "longitude"
      [] OTHER -> name

\* df.rename(columns=...) for every alternate spelling present (the tables
\* of the model never hold a column under both of its spellings)
RenameColumns(df) ==
    LET names == {df.columns[i] : i \in 1..Len(df.columns)}
        old(c) == CHOOSE o \in names : CanonicalName(o) = c
    IN  [columns |-> [i \in 1..Len(df.columns) |-> CanonicalName(df.columns[i])],
         rows |-> [k \in 1..Len(df.rows) |->
                     [c \in {CanonicalName(o) : o \in names} |->
                        df.rows[k][old(c)]]]]

\* pd.to_numeric(cell, errors='coerce'): numbers stay, a string of digits
\* is its number, any other string and the missing cell are NaN
ToNumeric(cell) ==
    CASE cell.kind \in {"int", "float"} -> cell
      [] cell.kind = "str" /\ IsIntLiteral(cell.s) -> PyInt(IntOf(cell.s))
      [] OTHER -> NaN

\* .fillna(0).astype(int) of a to_numeric result
AsInt(cell) == IF cell.kind = "NaN" THEN 0 ELSE cell.n

\* The port column after the conversion: zeros are set to None, which makes
\* the column a float column with NaN cells; without zeros it stays int
ConvertPort(rows) ==
    LET ints == [k \in 1..Len(rows) |-> AsInt(ToNumeric(rows[k]["port"]))]
        anyzero == \E k \in 1..Len(rows) : ints[k] = 0
    IN  [k \in 1..Len(rows) |->
            [rows[k] EXCEPT !["port"] =
                IF ints[k] = 0 THEN NaN
                ELSE IF anyzero THEN PyFloat(ints[k])
                ELSE PyInt(ints[k])]]

\* pd.to_numeric(df[col], errors='coerce') on a coordinate column
ConvertCoordinate(rows, col) ==
    [k \in 1..Len(rows) |-> [rows[k] EXCEPT ![col] = ToNumeric(rows[k][col])]]

\* A column of dtype object: it holds a string
IsObjectColumn(rows, col) == \E k \in 1..Len(rows) : rows[k][col].kind = "str"

\* df[col].str.strip() on every object column
StripStrings(rows, names) ==
    [k \in 1..Len(rows) |->
        [c \in names |->
            IF IsObjectColumn(rows, c) /\ rows[k][c].kind = "str"
            THEN PyStr(StripChars(rows[k][c].s))
            ELSE rows[k][c]]]

\* The steps of clean_dataframe after drop_duplicates
CleanColumns(df) ==
    LET renamed == RenameColumns(df)
        ported == IF HasColumn(renamed, "port")
                  THEN ConvertPort(renamed.rows) ELSE renamed.rows
        lat == IF HasColumn(renamed, "latitude")
               THEN ConvertCoordinate(ported, "latitude") ELSE ported
        lon == IF HasColumn(renamed, "longitude")
               THEN ConvertCoordinate(lat, "longitude") ELSE lat
    IN  [columns |-> renamed.columns,
         rows |-> StripStrings(lon, {renamed.columns[i] :
                                        i \in 1..Len(renamed.columns)})]

\* DataProcessor.clean_dataframe on a table with rows: [raised, df];
\* drop_duplicates raises KeyError when there is no column 'ip'
clean_dataframe(df) ==
    IF ~HasColumn(df, "ip") THEN [raised |-> "KeyError", df |-> df]
    ELSE LET valid == KeepValidIps(df.rows)
             unique == DropDuplicateIps(valid, Len(valid))
         IN  [raised |-> "",
              df |-> CleanColumns([columns |-> df.columns, rows |-> unique])]

---------------------------------------------------------------------------
(* Inputs: tables *)

ScopedIp == PyStr(<<"f","e","8","0",":",":","1","%","a">>)

ScopedIpBlank == PyStr(<<"f","e","8","0",":",":","1","%","a"," ">>)

BadOctetIp == PyStr(<<"9","9","9",".","1",".","1",".","1">>)

\* An IPv6 address whose scope id is one blank
BlankScopeIp == PyStr(<<"f","e","8","0",":",":","1","%"," ">>)

CleanIpChoices ==
    {IPv4Low, IPv4High, ScopedIp, ScopedIpBlank, BlankScopeIp, BadOctetIp}

\* (country, port) cells of a raw row
CleanCellChoices ==
    {<<PyStr(<<"U","S">>), PyInt(22)>>,
     <<PyStr(<<"D","E">>), PyStr(<<"8","0">>)>>,
     <<PyStr(<<" ","U","S"," ">>), PyInt(0)>>,
     <<NaN, PyStr(<<"a","b","c">>)>>,
     <<PyStr(<<"U","S">>), PyInt(70000)>>}

CleanColumnChoices == {<<"ip", "country", "port">>, <<"IP", "Country", "Port">>}

\* A raw row under the given column names
RawRow(columns, ip, cells) ==
    [c \in {columns[i] : i \in 1..3} |->
        IF c = columns[1] THEN ip
        ELSE IF c = columns[2] THEN cells[1]
        ELSE cells[2]]

MaxRows == 2

\* Lists of 1 to n elements of S
ListsFromOne(S, n) == UNION {[1..k -> S] : k \in 1..n}

\* The raw tables under the given column names, with at least one row
CleanTablesWith(columns) ==
    {[columns |-> columns, rows |-> rows] :
        rows \in ListsFromOne({RawRow(columns, ip, cells) :
                                  ip \in CleanIpChoices,
                                  cells \in CleanCellChoices}, MaxRows)}

CleanTables == UNION {CleanTablesWith(columns) : columns \in CleanColumnChoices}

---------------------------------------------------------------------------
(* clean_dataframe, applied once and then to its own output *)

InitClean ==
    /\ config = DefaultConfig
    /\ ipinfo_token = ""
    /\ nodes = <<>>
    /\ orig = <<>>
    /\ enriched_nodes = <<>>
    /\ calls = <<>>
    /\ outcome = <<>>
    /\ pc = "raw"
    /\ idx = 0
    /\ use_api = FALSE
    /\ max_api_calls = 0
    /\ api_calls_made = 0
    /\ raised = ""
    /\ table \in CleanTables
    /\ cleaned = EmptyTable
    /\ cleaned2 = EmptyTable
    /\ cls_score = 0
    /\ cls_level = "Unset"
    /\ errors = <<>>
    /\ session_nodes = <<>>
    /\ clock = 0
    /\ last_request_time = 0
    /\ request_times = <<>>
    /\ sleeps = <<>>
    /\ stats = <<>>

\* cleaned = clean_dataframe(table)
CleanOnce ==
    /\ pc = "raw"
    /\ LET res == clean_dataframe(table)
       IN  IF res.raised # ""
           THEN /\ raised' = res.raised
                /\ pc' = "clean_raised"
                /\ UNCHANGED cleaned
           ELSE /\ cleaned' = res.df
                /\ pc' = "cleaned"
                /\ UNCHANGED raised
    /\ UNCHANGED <<config, ipinfo_token, nodes, enriched_nodes, orig, calls,
                   outcome, idx, use_api, max_api_calls, api_calls_made, table,
                   cleaned2, cls_score, cls_level,
                   errors, session_nodes, clock, last_request_time,
                   request_times, sleeps, stats>>

\* cleaned2 = clean_dataframe(cleaned), for an output that has rows
CleanAgain ==
    /\ pc = "cleaned"
    /\ cleaned.rows # <<>>
    /\ LET res == clean_dataframe(cleaned)
       IN  /\ raised' = res.raised
           /\ cleaned2' = res.df
    /\ pc' = "cleaned_twice"
    /\ UNCHANGED <<config, ipinfo_token, nodes, enriched_nodes, orig, calls,
                   outcome, idx, use_api, max_api_calls, api_calls_made, table,
                   cleaned, cls_score, cls_level,
                   errors, session_nodes, clock, last_request_time,
                   request_times, sleeps, stats>>

NextClean == CleanOnce \/ CleanAgain

SpecClean == InitClean /\ [][NextClean]_vars

\* C9: clean_dataframe is idempotent: applied to its own output it returns a
\* table equal to that output.
C9_CleanIdempotent ==
    pc = "cleaned_twice" => (raised = "" /\ cleaned2 = cleaned)

\* The raw rows that clean to the ip of a cleaned row
C10_RawRowsOf(ip) ==
    {i \in 1..Len(table.rows) :
        /\ validate_ip(table.rows[i]["ip"])
        /\ PyStr(StripChars(table.rows[i]["ip"].s)) = ip}

C10_StripCell(cell) ==
    IF cell.kind = "str" THEN PyStr(StripChars(cell.s)) ELSE cell

\* C10: the output of clean_dataframe never contains two rows with the same
\* ip, and for each ip the row kept is the first row with that ip in input
\* order.
C10_NoDuplicateIps ==
    pc \in {"cleaned", "cleaned_twice"} =>
        /\ \A i, j \in 1..Len(cleaned.rows) :
            i # j => cleaned.rows[i]["ip"] # cleaned.rows[j]["ip"]
        /\ \A k \in 1..Len(cleaned.rows) :
            LET raw == C10_RawRowsOf(cleaned.rows[k]["ip"])
                first == CHOOSE i \in raw : \A j \in raw : i <= j
            IN  cleaned.rows[k]["country"] =
                    C10_StripCell(table.rows[first]["country"])

---------------------------------------------------------------------------
(* The upload pipeline of app.py: validate, clean, convert, enrich, score *)

\* DataProcessor.required_columns under the default configuration
RequiredColumns == <<"ip">>

\* The validation that reports the first failed check only
validate_dataframe_first(df) ==
    IF \E i \in 1..Len(RequiredColumns) : ~HasColumn(df, RequiredColumns[i])
    THEN << <<"Missing required columns">> >>
    ELSE IF df.rows = <<>> \/ df.columns = <<>>
    THEN << <<"DataFrame is empty">> >>
    ELSE IF \E k \in 1..Len(df.rows) : ~validate_ip(df.rows[k]["ip"])
    THEN << <<"Found invalid IP addresses">> >>
    ELSE <<>>

\* DataProcessor.validate_dataframe: the list of errors
validate_dataframe(df) ==
    LET missing_columns == SelectSeq(RequiredColumns, LAMBDA c : ~HasColumn(df, c))
        invalid_ips == IF HasColumn(df, "ip")
                       THEN SelectSeq(df.rows, LAMBDA r : ~validate_ip(r["ip"]))
                       ELSE <<>>
    IN  (IF missing_columns # <<>>
         THEN << <<"Missing required columns: ">> \o missing_columns >>
         ELSE <<>>)
        \o (IF df.rows = <<>> \/ df.columns = <<>>
            THEN << <<"DataFrame is empty">> >>
            ELSE <<>>)
        \o (IF invalid_ips # <<>>
            THEN << <<"Found ">> \o NatToChars(Len(invalid_ips))
                    \o <<" invalid IP addresses">> >>
            ELSE <<>>)

\* row.get(name): None for a column the table does not have
RowGet(row, name) == IF name \in DOMAIN row THEN row[name] ELSE None

\* DataProcessor.dataframe_to_nodes: one VPNNode per row, in row order
dataframe_to_nodes(df) ==
    [k \in 1..Len(df.rows) |->
        LET row == df.rows[k]
        IN  VPNNode(RowGet(row, "ip"), RowGet(row, "port"),
                    RowGet(row, "country"), RowGet(row, "region"),
                    RowGet(row, "city"), RowGet(row, "asn"),
                    RowGet(row, "isp"), RowGet(row, "first_seen"),
                    RowGet(row, "last_seen"), RowGet(row, "latitude"),
                    RowGet(row, "longitude"))]

\* (isp, port) cells of an uploaded row; NaN is the cell left empty
PipelineCellChoices ==
    {<<AcmeHostingCloud, PyInt(22)>>,
     <<NaN, PyInt(80)>>,
     <<PyStr(<<"C","o","m","c","a","s","t">>), NaN>>}

PipelineIpChoices == {IPv4Low, IPv6Addr, BadOctetIp}

PipelineColumnChoices == {<<"ip", "isp", "port">>, <<"IP", "ISP", "Port">>}

\* The uploaded tables, with at least one row
PipelineTablesWith(columns) ==
    {[columns |-> columns, rows |-> rows] :
        rows \in ListsFromOne({RawRow(columns, ip, cells) :
                                  ip \in PipelineIpChoices,
                                  cells \in PipelineCellChoices}, MaxRows)}

\* An upload without records: no columns at all, or the header line only
EmptyUploads ==
    {EmptyTable} \cup {[columns |-> columns, rows |-> <<>>] :
                          columns \in PipelineColumnChoices}

PipelineTables ==
    EmptyUploads \cup
    UNION {PipelineTablesWith(columns) : columns \in PipelineColumnChoices}

\* A collection of scored nodes stored by an earlier upload
PreviousNodes ==
    <<assess_node(ScoreNode(PyInt(22), None, None, AcmeHostingCloud),
                  DefaultConfig)>>

InitPipeline ==
    /\ config = DefaultConfig
    /\ ipinfo_token \in TokenChoices
    /\ nodes = <<>>
    /\ orig = <<>>
    /\ enriched_nodes = <<>>
    /\ calls = <<>>
    /\ outcome = <<>>
    /\ pc = "uploaded"
    /\ idx = 0
    /\ use_api \in BOOLEAN
    /\ max_api_calls \in 0..MaxApiCalls
    /\ api_calls_made = 0
    /\ raised = ""
    /\ table \in PipelineTables
    /\ cleaned = EmptyTable
    /\ cleaned2 = EmptyTable
    /\ cls_score = 0
    /\ cls_level = "Unset"
    /\ errors = <<>>
    /\ session_nodes \in {<<>>, PreviousNodes}
    /\ clock = 0
    /\ last_request_time = 0
    /\ request_times = <<>>
    /\ sleeps = <<>>
    /\ stats = <<>>

\* The handler going on to the cleaning whatever the validation found
ValidateDataframe_proceeds ==
    /\ pc = "uploaded"
    /\ errors' = validate_dataframe(table)
    /\ pc' = "validated"
    /\ UNCHANGED <<config, ipinfo_token, nodes, enriched_nodes, orig, calls,
                   outcome, idx, use_api, max_api_calls, api_calls_made,
                   raised, table, cleaned, cleaned2, cls_score, cls_level,
                   session_nodes, clock, last_request_time, request_times,
                   sleeps, stats>>

\* is_valid, errors = validate_dataframe(df); the handler returns when the
\* table is not valid
ValidateDataframe ==
    /\ pc = "uploaded"
    /\ errors' = validate_dataframe(table)
    /\ pc' = IF errors' = <<>> THEN "validated" ELSE "rejected"
    /\ UNCHANGED <<config, ipinfo_token, nodes, enriched_nodes, orig, calls,
                   outcome, idx, use_api, max_api_calls, api_calls_made,
                   raised, table, cleaned, cleaned2, cls_score, cls_level,
                   session_nodes, clock, last_request_time, request_times,
                   sleeps, stats>>

\* df = clean_dataframe(df)
CleanDataframe ==
    /\ pc = "validated"
    /\ LET res == clean_dataframe(table)
       IN  IF res.raised # ""
           THEN /\ raised' = res.raised
                /\ pc' = "aborted"
                /\ UNCHANGED cleaned
           ELSE /\ cleaned' = res.df
                /\ pc' = "clean"
                /\ UNCHANGED raised
    /\ UNCHANGED <<config, ipinfo_token, nodes, enriched_nodes, orig, calls,
                   outcome, idx, use_api, max_api_calls, api_calls_made, table,
                   cleaned2, cls_score, cls_level,
                   errors, session_nodes, clock, last_request_time,
                   request_times, sleeps, stats>>

\* nodes = dataframe_to_nodes(df), followed by the call of enrich_nodes
DataframeToNodes ==
    /\ pc = "clean"
    /\ nodes' = dataframe_to_nodes(cleaned)
    /\ orig' = nodes'
    /\ pc' = "enrich"
    /\ UNCHANGED <<config, ipinfo_token, enriched_nodes, calls, outcome, idx,
                   use_api, max_api_calls, api_calls_made, raised, table,
                   cleaned, cleaned2, cls_score, cls_level,
                   errors, session_nodes, clock, last_request_time,
                   request_times, sleeps, stats>>

\* The nodes of the list on which assess_node raises
RaisingNodes(list) == {i \in 1..Len(list) : AssessRaises(list[i])}

\* nodes = risk_engine.assess_nodes(nodes): the list comprehension scores the
\* nodes in place and in order; the first node on which assess_node raises
\* ends it, and the handler's except clause reports the error; otherwise
\* st.session_state['nodes'] = nodes
AssessNodes ==
    /\ pc = "enriched"
    /\ LET bad == RaisingNodes(enriched_nodes)
           stop == IF bad = {} THEN Len(enriched_nodes) + 1
                   ELSE CHOOSE i \in bad : \A j \in bad : i <= j
       IN  /\ enriched_nodes' =
                [i \in 1..Len(enriched_nodes) |->
                    IF i < stop THEN assess_node(enriched_nodes[i], config)
                    ELSE enriched_nodes[i]]
           /\ nodes' = enriched_nodes'
           /\ raised' = IF bad = {} THEN "" ELSE "AttributeError"
           /\ pc' = IF bad = {} THEN "done" ELSE "aborted"
           /\ session_nodes' = IF bad = {} THEN nodes' ELSE session_nodes
    /\ UNCHANGED <<config, ipinfo_token, orig, calls, outcome, idx, use_api,
                   max_api_calls, api_calls_made, table, cleaned, cleaned2,
                   cls_score, cls_level,
                   errors, clock, last_request_time,
                   request_times, sleeps, stats>>

NextPipeline ==
    \/ ValidateDataframe
    \/ CleanDataframe
    \/ DataframeToNodes
    \/ EnrichStep
    \/ EnrichReturn
    \/ AssessNodes

SpecPipeline == InitPipeline /\ [][NextPipeline]_vars

\* C3: in the batch pipeline (dataframe_to_nodes, enrich_nodes, assess_nodes)
\* a failure while processing one record never aborts the batch: the
\* pipeline does not end in an exception, and when it ends it holds one
\* node for every record of the cleaned table, in the order of the table.
C3_BatchNeverAborts ==
    /\ pc # "aborted"
    /\ raised = ""
    /\ pc = "done" =>
        /\ Len(nodes) = Len(cleaned.rows)
        /\ \A i \in 1..Len(nodes) : nodes[i].ip = cleaned.rows[i]["ip"]

---------------------------------------------------------------------------
(* clean_dataframe: alternate column spellings *)

\* C11: a table whose columns use the alternate spellings ("IP" instead of
\* "ip") is cleaned successfully into a table with canonical column names,
\* equal to the cleaning of the same table under canonical names.
C11_AlternateSpellingsCleaned ==
    (pc # "raw" /\ HasColumn(table, "IP")) =>
        /\ pc # "clean_raised"
        /\ raised = ""
        /\ cleaned = clean_dataframe(RenameColumns(table)).df

---------------------------------------------------------------------------
(* validate_dataframe: claims *)

\* The three checks of the validation, each on its own
C12_ColumnsPresent ==
    \A i \in 1..Len(RequiredColumns) : HasColumn(table, RequiredColumns[i])

C12_NonEmpty == table.rows # <<>> /\ table.columns # <<>>

C12_IpsValid ==
    HasColumn(table, "ip") =>
        \A k \in 1..Len(table.rows) : validate_ip(table.rows[k]["ip"])

C12_Violated ==
    (IF C12_ColumnsPresent THEN 0 ELSE 1) + (IF C12_NonEmpty THEN 0 ELSE 1)
    + (IF C12_IpsValid THEN 0 ELSE 1)

\* C12: validate_dataframe returns ok = true exactly when all three checks
\* pass, ok is true iff the error list is empty, and the number of error
\* strings equals the number of violated checks.
C12_ValidityIsConjunction ==
    pc \in {"validated", "rejected"} =>
        /\ (pc = "validated") <=>
               (C12_ColumnsPresent /\ C12_NonEmpty /\ C12_IpsValid)
        /\ (pc = "validated") <=> (errors = <<>>)
        /\ Len(errors) = C12_Violated

\* An upload without columns and rows was rejected with two errors
C12_Witness ==
    /\ pc = "rejected"
    /\ table = EmptyTable
    /\ Len(errors) = 2

---------------------------------------------------------------------------
(* The upload pipeline: claims *)

\* The steps after the validation have left no trace
C13_NothingRan ==
    /\ cleaned = EmptyTable
    /\ nodes = <<>>
    /\ enriched_nodes = <<>>
    /\ calls = <<>>
    /\ outcome = <<>>

\* C13: when validation of the loaded table fails, no cleaning, node
\* conversion, enrichment or scoring step runs for that upload and the stored
\* collection of scored nodes is left unchanged; enrichment and scoring only
\* ever run after a validation that passed.
C13_RejectedUploadStops ==
    /\ [](pc = "rejected" => (errors # <<>> /\ C13_NothingRan))
    /\ [](pc \in {"clean", "enrich", "enriched", "done", "aborted"} =>
            (errors = <<>> /\ validate_dataframe(table) = <<>>))
    /\ [][(pc = "rejected" \/ pc' = "rejected") =>
            session_nodes' = session_nodes]_vars

\* An upload with an invalid ip was rejected while an earlier upload's
\* nodes are stored
C13_Witness ==
    /\ pc = "rejected"
    /\ table.rows # <<>>
    /\ errors # <<>>
    /\ session_nodes = PreviousNodes

---------------------------------------------------------------------------
(* enrich_node: the node after enrichment *)

\* C15: after enrich_node returns for a node with a valid IPv4 or IPv6
\* address, country, latitude and longitude are all populated.
C15_NodeNeverLeftUnenriched ==
    \A i \in 1..Len(enriched_nodes) :
        validate_ip(enriched_nodes[i].ip) =>
            /\ enriched_nodes[i].country \notin {None, NaN}
            /\ enriched_nodes[i].latitude \notin {None, NaN}
            /\ enriched_nodes[i].longitude \notin {None, NaN}

---------------------------------------------------------------------------
(* The rate limiter of GeoAnalyzer; times are hundredths of a second *)

\* The minimum interval between requests: 0.1 second
MinRequestInterval == 10

MaxClock == 30

MaxRequests == 3

MaxElapse == 11

MaxOversleep == 1

\* The limiter sleeping the whole interval whenever it sleeps
RateLimitWait_full(time_since_last_request) ==
    IF time_since_last_request < MinRequestInterval
    THEN MinRequestInterval
    ELSE 0

\* The argument of time.sleep in _respect_rate_limit, 0 for no sleep
RateLimitWait(time_since_last_request) ==
    IF time_since_last_request < MinRequestInterval
    THEN MinRequestInterval - time_since_last_request
    ELSE 0

\* GeoAnalyzer._respect_rate_limit followed by the request of the provider;
\* time.sleep returns after at least the time asked for
RespectRateLimit(provider) ==
    LET current_time == clock
        wait == RateLimitWait(current_time - last_request_time)
    IN  \E over \in 0..MaxOversleep :
            /\ clock' = current_time + wait + over
            /\ last_request_time' = clock'
            /\ sleeps' = Append(sleeps, wait)
            /\ request_times' =
                 Append(request_times, [provider |-> provider,
                                        entered |-> current_time,
                                        at |-> last_request_time'])

\* GeoAnalyzer.__init__ sets last_request_time = time.time()
InitRateLimit ==
    /\ config = DefaultConfig
    /\ ipinfo_token \in TokenChoices
    /\ nodes = <<>>
    /\ orig = <<>>
    /\ enriched_nodes = <<>>
    /\ calls = <<>>
    /\ outcome = <<>>
    /\ pc = "idle"
    /\ idx = 0
    /\ use_api = TRUE
    /\ max_api_calls = 0
    /\ api_calls_made = 0
    /\ raised = ""
    /\ table = EmptyTable
    /\ cleaned = EmptyTable
    /\ cleaned2 = EmptyTable
    /\ cls_score = 0
    /\ cls_level = "Unset"
    /\ errors = <<>>
    /\ session_nodes = <<>>
    /\ clock = 0
    /\ last_request_time = clock
    /\ request_times = <<>>
    /\ sleeps = <<>>
    /\ stats = <<>>

\* Time passes between two lookups
TimePasses ==
    /\ pc = "idle"
    /\ \E d \in 1..MaxElapse :
        /\ clock + d <= MaxClock
        /\ clock' = clock + d
    /\ UNCHANGED <<config, ipinfo_token, nodes, enriched_nodes, orig, calls,
                   outcome, pc, idx, use_api, max_api_calls, api_calls_made,
                   raised, table, cleaned, cleaned2, cls_score, cls_level,
                   errors, session_nodes, last_request_time, request_times,
                   sleeps, stats>>

\* lookup_ip_ipinfo with a token: the limiter, then requests.get
LookupIpinfo ==
    /\ pc = "idle"
    /\ ipinfo_token # ""
    /\ Len(request_times) < MaxRequests
    /\ RespectRateLimit("ipinfo")
    /\ UNCHANGED <<config, ipinfo_token, nodes, enriched_nodes, orig, calls,
                   outcome, pc, idx, use_api, max_api_calls, api_calls_made,
                   raised, table, cleaned, cleaned2, cls_score, cls_level,
                   errors, session_nodes, stats>>

\* lookup_ip_free_api: the limiter, then requests.get
LookupFreeApi ==
    /\ pc = "idle"
    /\ Len(request_times) < MaxRequests
    /\ RespectRateLimit("ip-api")
    /\ UNCHANGED <<config, ipinfo_token, nodes, enriched_nodes, orig, calls,
                   outcome, pc, idx, use_api, max_api_calls, api_calls_made,
                   raised, table, cleaned, cleaned2, cls_score, cls_level,
                   errors, session_nodes, stats>>

NextRateLimit == TimePasses \/ LookupIpinfo \/ LookupFreeApi

SpecRateLimit == InitRateLimit /\ [][NextRateLimit]_vars

\* The recorded time of the request before request i; the construction of
\* the GeoAnalyzer for the first
C16_Previous(i) == IF i = 1 THEN 0 ELSE request_times[i - 1].at

\* C16: every provider call is preceded by the rate-limiter wait, the
\* recorded times of two consecutive calls are at least 0.1 second apart,
\* and the limiter sleeps only the remainder of the interval and not at all
\* when the previous call is at least 0.1 second old.
C16_RequestsSpaced ==
    /\ Len(sleeps) = Len(request_times)
    /\ \A i \in 1..Len(request_times) :
        LET elapsed == request_times[i].entered - C16_Previous(i)
        IN  /\ request_times[i].at - C16_Previous(i) >= MinRequestInterval
            /\ elapsed >= MinRequestInterval => sleeps[i] = 0
            /\ elapsed < MinRequestInterval =>
                   sleeps[i] = MinRequestInterval - elapsed

\* The primary and then the secondary provider were called; the limiter
\* slept a remainder before one and did not sleep before the other
C16_Witness ==
    /\ Len(request_times) >= 2
    /\ request_times[1].provider = "ipinfo"
    /\ request_times[2].provider = "ip-api"
    /\ \E i, j \in 1..Len(sleeps) :
        /\ sleeps[i] = 0
        /\ sleeps[j] > 0
        /\ sleeps[j] < MinRequestInterval

---------------------------------------------------------------------------
(* Scoring: factors, repeated calls *)

\* C17: after any scoring call on any node, risk_factors is non-empty if and
\* only if risk_score > 0, and a freshly constructed, unscored node has score
\* 0 with empty factors.
C17_FactorsIffPositiveScore ==
    pc \in {"node_new", "node_assessed", "node_enriched", "node_raised"} =>
        /\ (nodes[1].risk_factors # <<>>) <=> (nodes[1].risk_score > 0)
        /\ pc = "node_new" =>
            (nodes[1].risk_score = 0 /\ nodes[1].risk_factors = <<>>)

\* A node was scored by the VPN rule alone
C17_Witness ==
    /\ pc = "node_assessed"
    /\ nodes[1].risk_score = 1000
    /\ nodes[1].risk_factors = << <<"Known VPN provider">> >>

\* C18: calling assess_node any number of times in a row leaves risk_score,
\* risk_level and risk_factors equal to their values after the first call.
C18_ScoringIdempotent ==
    [][(pc = "node_assessed" /\ pc' = "node_assessed") => nodes' = nodes]_vars

\* A node with a positive score was scored twice in a row
C18_Witness ==
    /\ pc = "node_assessed"
    /\ idx = 2
    /\ outcome = <<>>
    /\ nodes[1].risk_score > 0
    /\ nodes[1].risk_factors # <<>>

---------------------------------------------------------------------------
(* assess_nodes: the batch against the single node *)

\* C19: assess_nodes gives each node of a list the same risk_score,
\* risk_level and risk_factors as assess_node applied to that node alone,
\* whatever the other nodes of the list and their order.
C19_BatchEqualsIsolated ==
    pc \in {"done", "aborted"} =>
        \A i \in 1..Len(nodes) :
            ~AssessRaises(nodes[i]) =>
                LET alone == assess_node(nodes[i], config)
                IN  /\ nodes[i].risk_score = alone.risk_score
                    /\ nodes[i].risk_level = alone.risk_level
                    /\ nodes[i].risk_factors = alone.risk_factors

---------------------------------------------------------------------------
(* Scoring: monotonicity *)

\* The rules other than the sparse-metadata rule that fire on a node
C20_Fired(n, cfg) ==
    {r \in {"port", "isp", "asn", "vpn"} :
        CASE r = "port" -> PortRule(n, cfg).score > 0
          [] r = "isp" -> IspRule(n, cfg).score > 0
          [] r = "asn" -> AsnRule(n, cfg).score > 0
          [] r = "vpn" -> VpnRule(n).score > 0}

\* The nodes got from n by populating one absent field among port, isp and
\* asn so that at least one more rule fires
C20_Populated(n, cfg) ==
    {m \in ({[n EXCEPT !.port = v] : v \in PortChoices}
            \cup {[n EXCEPT !.isp = v] : v \in IspChoices}
            \cup {[n EXCEPT !.asn = v] : v \in AsnChoices}) :
        /\ ~AssessRaises(m)
        /\ \E f \in {"port", "isp", "asn"} : ~Truthy(n[f]) /\ Truthy(m[f])
        /\ C20_Fired(m, cfg) \ C20_Fired(n, cfg) # {}}

\* C20: populating one previously absent field among port, isp and asn with
\* a value that makes at least one additional rule fire never lowers the
\* score, even when it stops the sparse-metadata rule from firing.
C20_ScoreMonotone ==
    (pc \in {"node_new", "node_assessed", "node_enriched"}
     /\ ~AssessRaises(nodes[1])) =>
        \A m \in C20_Populated(nodes[1], config) :
            assess_node(m, config).risk_score
                >= assess_node(nodes[1], config).risk_score

\* A node scored by the sparse-metadata rule for which populating a field
\* stops that rule and fires another
C20_Witness ==
    /\ pc = "node_assessed"
    /\ MissingRule(nodes[1]).score > 0
    /\ nodes[1].risk_score = assess_node(nodes[1], config).risk_score
    /\ \E m \in C20_Populated(nodes[1], config) :
        /\ MissingRule(m).score = 0
        /\ assess_node(m, config).risk_score > nodes[1].risk_score

---------------------------------------------------------------------------
(* clean_dataframe: the cells of the output *)

\* C21: every row in the output of clean_dataframe has an ip that is present
\* and is a syntactically valid IP literal, for every input table that has
\* an ip column.
C21_CleanedIpsValid ==
    pc = "cleaned" =>
        \A k \in 1..Len(cleaned.rows) : validate_ip(cleaned.rows[k]["ip"])

\* C25: after clean_dataframe every port value is either absent or an
\* integer in 0..65535.
C25_CleanedPortsInRange ==
    pc = "cleaned" =>
        \A k \in 1..Len(cleaned.rows) :
            LET port == cleaned.rows[k]["port"]
            IN  \/ port \in {None, NaN}
                \/ (port.kind \in {"int", "float"}
                    /\ port.n >= 0 /\ port.n <= 65535)

---------------------------------------------------------------------------
(* get_statistics: counts in nodes, average_score in thousandths,           *)
(* percentages in tenths of a percent                                       *)

\* round(num / den, 0) as Python rounds: to the nearest, ties to even
RoundHalfEven(num, den) ==
    LET q == num \div den
        r == num % den
    IN  IF 2 * r > den \/ (2 * r = den /\ q % 2 = 1) THEN q + 1 ELSE q

\* risk_counts[level] after the loop over the nodes
RiskCount(list, level) ==
    Cardinality({i \in 1..Len(list) : list[i].risk_level = level})

RECURSIVE TotalScore(_, _)
\* total_score after the first k nodes
TotalScore(list, k) ==
    IF k = 0 THEN 0 ELSE TotalScore(list, k - 1) + list[k].risk_score

\* round(count / total * 100, 1)
Percentage(count, total) == RoundHalfEven(count * 1000, total)

\* get_statistics without the early return for the empty collection
get_statistics_unguarded(list) ==
    IF Len(list) = 0
    THEN [raised |-> "ZeroDivisionError", result |-> <<>>]
    ELSE [raised |-> "",
          result |-> [total |-> Len(list),
                      high_risk |-> RiskCount(list, "High"),
                      medium_risk |-> RiskCount(list, "Medium"),
                      low_risk |-> RiskCount(list, "Low"),
                      unknown |-> RiskCount(list, "Unknown"),
                      average_score |->
                          10 * RoundHalfEven(TotalScore(list, Len(list)),
                                             10 * Len(list))]]

\* get_statistics leaving the nodes of level Unknown out of its counts
get_statistics_known(list) ==
    [raised |-> "",
     result |-> [total |-> Len(list),
                 high_risk |-> RiskCount(list, "High"),
                 medium_risk |-> RiskCount(list, "Medium"),
                 low_risk |-> RiskCount(list, "Low"),
                 unknown |-> 0,
                 average_score |->
                     IF Len(list) = 0 THEN 0
                     ELSE 10 * RoundHalfEven(TotalScore(list, Len(list)),
                                             10 * Len(list))]]

\* RiskEngine.get_statistics: [raised, result]; result is the mapping
get_statistics(list) ==
    LET total == Len(list)
        total_score == TotalScore(list, total)
    IN  IF total = 0
        THEN [raised |-> "",
              result |-> [total |-> 0, high_risk |-> 0, medium_risk |-> 0,
                          low_risk |-> 0, unknown |-> 0, average_score |-> 0]]
        ELSE [raised |-> "",
              result |->
                [total |-> total,
                 high_risk |-> RiskCount(list, "High"),
                 medium_risk |-> RiskCount(list, "Medium"),
                 low_risk |-> RiskCount(list, "Low"),
                 unknown |-> RiskCount(list, "Unknown"),
                 average_score |-> 10 * RoundHalfEven(total_score, 10 * total),
                 high_risk_pct |-> Percentage(RiskCount(list, "High"), total),
                 medium_risk_pct |->
                     Percentage(RiskCount(list, "Medium"), total),
                 low_risk_pct |-> Percentage(RiskCount(list, "Low"), total),
                 unknown_pct |->
                     Percentage(RiskCount(list, "Unknown"), total)]]

---------------------------------------------------------------------------
(* Scoring a collection and taking its statistics *)

\* RiskEngine.assess_nodes: [raised, nodes]; the nodes are scored in place,
\* in order, up to the first on which assess_node raises
assess_nodes(list, cfg) ==
    LET bad == RaisingNodes(list)
        stop == IF bad = {} THEN Len(list) + 1
                ELSE CHOOSE i \in bad : \A j \in bad : i <= j
    IN  [raised |-> IF bad = {} THEN "" ELSE "AttributeError",
         nodes |-> [i \in 1..Len(list) |->
                      IF i < stop THEN assess_node(list[i], cfg) ELSE list[i]]]

\* Unscored nodes that the default configuration scores 7.5 (High),
\* 5.5 (Medium), 0.5 (Low) and 0 (Unknown), and one without isp cell
StatNodeChoices ==
    {ScoreNode(PyInt(22), PyStr(<<"U","S">>),
               PyStr(<<"A","S","9"," ","C","l","o","u","d">>),
               PyStr(<<"N","o","r","d","V","P","N">>)),
     ScoreNode(PyInt(22), None, None, AcmeHostingCloud),
     ScoreNode(None, None, None, PyStr(<<"C","o","m","c","a","s","t">>)),
     ScoreNode(PyInt(1234), PyStr(<<"U","S">>),
               PyStr(<<"A","S","7","9","2","2">>),
               PyStr(<<"C","o","m","c","a","s","t">>)),
     ScoreNode(PyInt(80), None, None, NaN)}

MaxStatNodes == 3

InitStats ==
    /\ config = DefaultConfig
    /\ ipinfo_token = ""
    /\ nodes \in ListsUpTo(StatNodeChoices, MaxStatNodes)
    /\ orig = nodes
    /\ enriched_nodes = <<>>
    /\ calls = <<>>
    /\ outcome = <<>>
    /\ pc = "collection"
    /\ idx = 0
    /\ use_api = FALSE
    /\ max_api_calls = 0
    /\ api_calls_made = 0
    /\ raised = ""
    /\ table = EmptyTable
    /\ cleaned = EmptyTable
    /\ cleaned2 = EmptyTable
    /\ cls_score = 0
    /\ cls_level = "Unset"
    /\ errors = <<>>
    /\ session_nodes = <<>>
    /\ clock = 0
    /\ last_request_time = 0
    /\ request_times = <<>>
    /\ sleeps = <<>>
    /\ stats = <<>>

\* nodes = risk_engine.assess_nodes(nodes)
StatsAssessNodes ==
    /\ pc = "collection"
    /\ LET res == assess_nodes(nodes, config)
       IN  /\ nodes' = res.nodes
           /\ raised' = res.raised
           /\ pc' = IF res.raised = "" THEN "assessed" ELSE "assess_raised"
    /\ UNCHANGED <<config, ipinfo_token, enriched_nodes, orig, calls, outcome,
                   idx, use_api, max_api_calls, api_calls_made, table,
                   cleaned, cleaned2, cls_score, cls_level, errors,
                   session_nodes, clock, last_request_time, request_times,
                   sleeps, stats>>

\* stats = risk_engine.get_statistics(nodes), on an unscored, a scored or a
\* partly scored collection
GetStatistics ==
    /\ pc \in {"collection", "assessed", "assess_raised"}
    /\ LET res == get_statistics(nodes)
       IN  IF res.raised # ""
           THEN /\ raised' = res.raised
                /\ pc' = "stats_raised"
                /\ UNCHANGED stats
           ELSE /\ stats' = res.result
                /\ pc' = "reported"
                /\ UNCHANGED raised
    /\ UNCHANGED <<config, ipinfo_token, nodes, enriched_nodes, orig, calls,
                   outcome, idx, use_api, max_api_calls, api_calls_made,
                   table, cleaned, cleaned2, cls_score, cls_level, errors,
                   session_nodes, clock, last_request_time, request_times,
                   sleeps>>

NextStats == StatsAssessNodes \/ GetStatistics

SpecStats == InitStats /\ [][NextStats]_vars
\* C22: get_statistics on an empty collection does not raise and returns
\* total 0, average_score 0.0 and a count of 0 for each of High, Medium,
\* Low and Unknown.
C22_EmptyStatistics ==
    nodes = <<>> =>
        /\ pc # "stats_raised"
        /\ raised = ""
        /\ pc = "reported" =>
            /\ stats["total"] = 0
            /\ stats["average_score"] = 0
            /\ \A k \in {"high_risk", "medium_risk", "low_risk", "unknown"} :
                stats[k] = 0

\* The statistics of the empty collection were taken
C22_Witness ==
    /\ pc = "reported"
    /\ nodes = <<>>
    /\ stats["total"] = 0

C23_Levels ==
    {<<"High", "high_risk", "high_risk_pct">>,
     <<"Medium", "medium_risk", "medium_risk_pct">>,
     <<"Low", "low_risk", "low_risk_pct">>,
     <<"Unknown", "unknown", "unknown_pct">>}

\* C23: for every collection of nodes, including the empty one, the mapping
\* returned by get_statistics contains total, a count per level,
\* average_score and a percentage per level, each percentage being
\* count/total*100 rounded to 1 decimal and average_score being total
\* score/total rounded to 2 decimals.
C23_StatisticsMapping ==
    pc = "reported" =>
        /\ {"total", "average_score"} \subseteq DOMAIN stats
        /\ \A l \in C23_Levels : {l[2], l[3]} \subseteq DOMAIN stats
        /\ Len(nodes) > 0 =>
            /\ \A l \in C23_Levels :
                /\ 2 * (stats[l[3]] * stats["total"] - stats[l[2]] * 1000)
                     <= stats["total"]
                /\ 2 * (stats[l[2]] * 1000 - stats[l[3]] * stats["total"])
                     <= stats["total"]
            /\ stats["average_score"] % 10 = 0
            /\ LET sum == TotalScore(nodes, Len(nodes))
                   diff == stats["average_score"] * Len(nodes) - sum
               IN  diff <= 5 * Len(nodes) /\ -diff <= 5 * Len(nodes)

\* C29: for every non-empty collection of scored nodes the four level
\* counts sum to total, total equals the number of nodes, and each node is
\* counted in exactly the count of its own risk_level.
C29_CountsPartitionNodes ==
    (pc = "reported" /\ Len(nodes) > 0) =>
        /\ stats["total"] = Len(nodes)
        /\ stats["high_risk"] + stats["medium_risk"] + stats["low_risk"]
           + stats["unknown"] = stats["total"]
        /\ \A l \in C23_Levels :
            stats[l[2]] =
                Cardinality({i \in 1..Len(nodes) : nodes[i].risk_level = l[1]})

\* The statistics of scored nodes of three different levels were taken
C29_Witness ==
    /\ pc = "reported"
    /\ raised = ""
    /\ stats["high_risk"] = 1
    /\ stats["low_risk"] = 1
    /\ stats["unknown"] = 1

C30_InputFields ==
    {"ip", "port", "country", "region", "city", "asn", "isp", "first_seen",
     "last_seen", "latitude", "longitude"}

\* C30: assess_node changes only risk_score, risk_level and risk_factors of
\* the node and leaves the other fields unchanged; get_statistics changes no
\* field of any node.
C30_ScoringFrame ==
    [][/\ Len(nodes') = Len(nodes)
       /\ \A i \in 1..Len(nodes) :
            \A f \in C30_InputFields : nodes'[i][f] = nodes[i][f]
       /\ pc' = "reported" => nodes' = nodes]_vars

\* A collection was scored, which changed a node, and its statistics taken
C30_Witness ==
    /\ pc = "reported"
    /\ nodes # orig
    /\ \E i \in 1..Len(nodes) :
        /\ nodes[i].risk_score > 0
        /\ nodes[i].isp.kind = "str"
        /\ nodes[i].isp.s # Lower(nodes[i].isp.s)
    /\ stats["total"] = Len(nodes)

---------------------------------------------------------------------------
(* enrich_node: the providers and the coordinates *)

\* C24: with use_api = true the secondary (free) provider is called only
\* after the primary was skipped for lack of a token or returned no data,
\* the primary is never called without a token, and each provider is called
\* at most once per node.
C24_ProviderOrder ==
    /\ \A i \in 1..Len(calls) :
        /\ calls[i] \in {<<>>, <<"ipinfo">>, <<"ip-api">>,
                         <<"ipinfo", "ip-api">>}
        /\ ipinfo_token = "" => calls[i] \in {<<>>, <<"ip-api">>}
        /\ (ipinfo_token # "" /\ calls[i] # <<>>) => calls[i][1] = "ipinfo"
    /\ \A i \in 1..Len(orig) :
        \A resp1 \in IpinfoResponses, resp2 \in FreeResponses :
            LET res == enrich_node(orig[i], TRUE, ipinfo_token, resp1, resp2)
            IN  (\E k \in 1..Len(res.calls) : res.calls[k] = "ip-api") =>
                    \/ ipinfo_token = ""
                    \/ ~lookup_ip_ipinfo(ipinfo_token, resp1).found

\* The keyed provider was called for a node and returned no data, and the
\* keyless provider then delivered
C24_Witness ==
    /\ pc = "enriched"
    /\ \E i \in 1..Len(calls) :
        /\ calls[i] = <<"ipinfo", "ip-api">>
        /\ outcome[i] = "api"

\* C26: after enrich_node returns, the node's latitude and longitude are
\* either both present or both absent.
C26_CoordinatesPaired ==
    \A i \in 1..Len(enriched_nodes) :
        (enriched_nodes[i].latitude \in {None, NaN})
            <=> (enriched_nodes[i].longitude \in {None, NaN})

---------------------------------------------------------------------------
(* The upload pipeline: absent cells *)

C27_OptionalFields ==
    {"port", "country", "isp", "asn", "latitude", "longitude"}

\* C27: for every cleaned row, an optional field that is empty or missing in
\* the row is absent in the node built by dataframe_to_nodes, so that
\* enrich_node and assess_node treat it as missing.
C27_AbsenceUniform ==
    pc \in {"enrich", "enriched", "done", "aborted"} =>
        \A i \in 1..Len(orig) :
            \A f \in C27_OptionalFields :
                (\/ f \notin DOMAIN cleaned.rows[i]
                 \/ cleaned.rows[i][f] \in {None, NaN, PyStr(<<>>)})
                    => ~Truthy(orig[i][f])

---------------------------------------------------------------------------
(* Scoring under the default configuration *)

\* The high-risk-port, datacenter-ISP, datacenter-ASN and VPN rules all fire
C28_AllFourFire(n, cfg) ==
    /\ PortRule(n, cfg).score = 3000
    /\ IspRule(n, cfg).score > 0
    /\ AsnRule(n, cfg).score > 0
    /\ VpnRule(n).score > 0

\* C28: under the default configuration the largest score assess_node can
\* produce is 7.5, a node is classified High if and only if the
\* high-risk-port, datacenter-ISP, datacenter-ASN and known-VPN rules all
\* fire, and the sparse-metadata rule never fires together with both the
\* datacenter-ISP and the datacenter-ASN rule.
C28_DefaultMaximum ==
    (config = DefaultConfig /\ pc = "node_assessed") =>
        /\ nodes[1].risk_score <= 7500
        /\ (nodes[1].risk_level = "High") <=> C28_AllFourFire(nodes[1], config)
        /\ ~(/\ MissingRule(nodes[1]).score > 0
             /\ IspRule(nodes[1], config).score > 0
             /\ AsnRule(nodes[1], config).score > 0)

\* A node was scored 7.5 and High under the default configuration
C28_Witness ==
    /\ config = DefaultConfig
    /\ pc = "node_assessed"
    /\ nodes[1].risk_score = 7500
    /\ nodes[1].risk_level = "High"
    /\ Len(nodes[1].risk_factors) = 4

===========================================================================
